---- MODULE Spec2Model ----
(***************************************************************************)
(* A model of pico-fmt's formatting engine (pico_fmt/printf.c): the sink   *)
(* adapter, the directive parser / driver, the specifier table with        *)
(* fmt_install, and the built-in conversion handlers.                      *)
(*                                                                         *)
(* Bytes are the integers 0..255.  A format is the sequence of its bytes   *)
(* without the terminating NUL; the output is the sequence of bytes passed *)
(* to the sink.  Arguments are typed values [t, v], consumed through a     *)
(* cursor (the index of the next argument).                                *)
(***************************************************************************)
EXTENDS Integers, Sequences, FiniteSets, TLC

(***************************************************************************)
(* Bytes and characters.                                                   *)
(***************************************************************************)

\* The printable ASCII characters, 0x20 (space) to 0x7E (~), in code order
\* (the quote characters and the backslash are written by name).
Printable ==
    << " ", "!", "DQUOTE", "#", "$", "%", "&", "SQUOTE", "(", ")", "*", "+", ",", "-", ".", "/",
       "0", "1", "2", "3", "4", "5", "6", "7", "8", "9", ":", ";", "<", "=", ">", "?",
       "@", "A", "B", "C", "D", "E", "F", "G", "H", "I", "J", "K", "L", "M", "N", "O",
       "P", "Q", "R", "S", "T", "U", "V", "W", "X", "Y", "Z", "[", "BSLASH", "]", "^", "_",
       "BQUOTE", "a", "b", "c", "d", "e", "f", "g", "h", "i", "j", "k", "l", "m", "n", "o",
       "p", "q", "r", "s", "t", "u", "v", "w", "x", "y", "z", "{", "|", "}", "~" >>

\* The byte value of a printable character, as a C character constant has it.
Ord(c) == 31 + (CHOOSE i \in 1..Len(Printable) : Printable[i] = c)

\* The bytes of a C string literal, given as the tuple of its characters.
Bytes(s) == [i \in 1..Len(s) |-> Ord(s[i])]

\* n copies of byte b (none when n <= 0).
Rep(b, n) == [i \in 1..n |-> b]

Max(a, b) == IF a > b THEN a ELSE b

\* Character constants the code names.
CH_SPACE == Ord(" ")
CH_TILDE == Ord("~")
CH_PCT   == Ord("%")
CH_ZERO  == Ord("0")
CH_NINE  == Ord("9")
CH_MINUS == Ord("-")
CH_PLUS  == Ord("+")
CH_HASH  == Ord("#")
CH_STAR  == Ord("*")
CH_DOT   == Ord(".")
CH_QUOTE == Ord("SQUOTE")
CH_BSLASH == Ord("BSLASH")
CH_RPAREN == Ord(")")
CH_A     == Ord("A")
CH_Z     == Ord("Z")
CH_a     == Ord("a")
CH_b     == Ord("b")
CH_c     == Ord("c")
CH_d     == Ord("d")
CH_e     == Ord("e")
CH_f     == Ord("f")
CH_g     == Ord("g")
CH_h     == Ord("h")
CH_i     == Ord("i")
CH_j     == Ord("j")
CH_l     == Ord("l")
CH_o     == Ord("o")
CH_p     == Ord("p")
CH_s     == Ord("s")
CH_t     == Ord("t")
CH_u     == Ord("u")
CH_x     == Ord("x")
CH_z     == Ord("z")
CH_E     == Ord("E")
CH_F     == Ord("F")
CH_G     == Ord("G")
CH_X     == Ord("X")
CH_Q     == Ord("Q")

\* The cast of x to the unsigned type of the given width: reduction modulo
\* 2^bits.  The checker's integers are below 2^31, so a non-negative value is
\* its own residue modulo 2^32 and 2^64 (negative values are not cast to these
\* types on the inputs used).
WrapU(x, bits) == IF bits < 31 THEN x % (2^bits) ELSE x

\* (size_t) -1, as far as the checker's integers reach: no string is longer.
SIZE_MAX == (2^30 - 1) + 2^30

(***************************************************************************)
(* The build.  `char` is signed on the host build (x86-64, LP64) and       *)
(* unsigned on the Pico target (ARM, ILP32); long is 64 or 32 bits.        *)
(***************************************************************************)
Builds == { [charSigned |-> TRUE,  lp64 |-> TRUE],
            [charSigned |-> FALSE, lp64 |-> FALSE] }

\* (unsigned int) of a char holding byte b.  A negative char converts to 2^32 - (256 - b); the value is only compared with
\* array_len(specifier_table), and is written as far as the checker's integers reach.
CharToUInt(b, bld) == IF bld.charSigned /\ b >= 128 THEN SIZE_MAX - (256 - b) ELSE b

(***************************************************************************)
(* utilities                                                               *)
(***************************************************************************)

\* The byte at index i of the NUL-terminated format f (1-based).  Index
\* Len(f)+1 holds the terminator.
At(f, i) == IF i \in 1..Len(f) THEN f[i] ELSE 0

_is_digit(ch) == (ch >= CH_ZERO) /\ (ch <= CH_NINE)

_is_upper(ch) == (ch >= CH_A) /\ (ch <= CH_Z)

\* _atoi: reads decimal digits from position i; gives the value and the
\* position of the first byte that is no digit.
RECURSIVE _atoi_loop(_, _, _)
_atoi_loop(f, i, acc) ==
    IF _is_digit(At(f, i))
    THEN _atoi_loop(f, i + 1, WrapU(acc * 10 + (At(f, i) - CH_ZERO), 32))
    ELSE [val |-> acc, pos |-> i]

_atoi(f, i) == _atoi_loop(f, i, 0)

\* _strnlen_s: the length of str limited by maxsize.
_strnlen_s(str, maxsize) == IF Len(str) < maxsize THEN Len(str) ELSE maxsize

(***************************************************************************)
(* The sink adapter (struct _fmt_ctx) and fmt_state_putchar.               *)
(* ctx = [fct, idx, sunk, put]: fct is "NULL" or the name of the sink      *)
(* function, sunk the bytes fct has received, and put (history) every byte *)
(* handed to fmt_state_putchar.                                            *)
(***************************************************************************)
\* Variant: bytes are counted only when there is a sink function.
fmt_state_putchar_counts_sunk(ctx, character) ==
    [ctx EXCEPT !.sunk = IF ctx.fct # "NULL" THEN Append(@, character) ELSE @,
                !.idx  = IF ctx.fct # "NULL" THEN @ + 1 ELSE @,
                !.put  = Append(@, character)]

fmt_state_putchar(ctx, character) ==
    [ctx EXCEPT !.sunk = IF ctx.fct # "NULL" THEN Append(@, character) ELSE @,
                !.idx  = @ + 1,
                !.put  = Append(@, character)]

\* fmt_state_puts, and every run of putchar calls: the bytes in order.
RECURSIVE fmt_state_puts(_, _)
fmt_state_puts(ctx, str) ==
    IF str = << >> THEN ctx
    ELSE fmt_state_puts(fmt_state_putchar(ctx, Head(str)), Tail(str))

fmt_state_len(ctx) == ctx.idx

(***************************************************************************)
(* The argument cursor.  va_arg reads the argument under the cursor; the   *)
(* caller provides arguments of the types the format asks for (anything    *)
(* else is undefined by the C contract and is not among the inputs).       *)
(***************************************************************************)
va_arg(args, va) ==
    IF va \in 1..Len(args)
    THEN CASE args[va].t = "str"    -> args[va].s
           [] args[va].t = "double" -> args[va].d
           [] OTHER                 -> args[va].i
    ELSE 0

(***************************************************************************)
(* The directive parser of _vfctprintf:                                    *)
(*   %[flags][width][.precision][size]specifier                            *)
(* Flags are the set of the FMT_FLAG_ names that are set.                  *)
(***************************************************************************)
FlagOf(ch) ==
    CASE ch = CH_ZERO  -> "ZEROPAD"
      [] ch = CH_MINUS -> "LEFT"
      [] ch = CH_PLUS  -> "PLUS"
      [] ch = CH_SPACE -> "SPACE"
      [] ch = CH_HASH  -> "HASH"
      [] OTHER         -> "none"

\* evaluate flags: the for (;;) switch loop.
RECURSIVE EvalFlags(_, _, _)
EvalFlags(f, i, flags) ==
    IF FlagOf(At(f, i)) = "none"
    THEN [flags |-> flags, pos |-> i]
    ELSE EvalFlags(f, i + 1, flags \cup {FlagOf(At(f, i))})

\* Variant: a `*` width reads its argument without advancing the cursor.
EvalWidth_keeps_cursor(f, i, flags, args, va) ==
    IF _is_digit(At(f, i))
    THEN [width |-> _atoi(f, i).val, flags |-> flags, pos |-> _atoi(f, i).pos,
          va |-> va]
    ELSE IF At(f, i) = CH_STAR
    THEN LET w == va_arg(args, va)
         IN  IF w < 0
             THEN [width |-> WrapU(0 - w, 32), flags |-> flags \cup {"LEFT"},
                   pos |-> i + 1, va |-> va]
             ELSE [width |-> w, flags |-> flags, pos |-> i + 1, va |-> va]
    ELSE [width |-> 0, flags |-> flags, pos |-> i, va |-> va]

\* evaluate width field.
EvalWidth(f, i, flags, args, va) ==
    IF _is_digit(At(f, i))
    THEN [width |-> _atoi(f, i).val, flags |-> flags, pos |-> _atoi(f, i).pos,
          va |-> va]
    ELSE IF At(f, i) = CH_STAR
    THEN LET w == va_arg(args, va)
         IN  IF w < 0
             THEN [width |-> WrapU(0 - w, 32), flags |-> flags \cup {"LEFT"},
                   pos |-> i + 1, va |-> va + 1]
             ELSE [width |-> w, flags |-> flags, pos |-> i + 1, va |-> va + 1]
    ELSE [width |-> 0, flags |-> flags, pos |-> i, va |-> va]

\* evaluate precision field.
EvalPrecision(f, i, flags, args, va) ==
    IF At(f, i) = CH_DOT
    THEN IF _is_digit(At(f, i + 1))
         THEN [precision |-> _atoi(f, i + 1).val, flags |-> flags \cup {"PRECISION"},
               pos |-> _atoi(f, i + 1).pos, va |-> va]
         ELSE IF At(f, i + 1) = CH_STAR
         THEN LET prec == va_arg(args, va)
              IN  [precision |-> IF prec > 0 THEN prec ELSE 0,
                   flags |-> flags \cup {"PRECISION"}, pos |-> i + 2, va |-> va + 1]
         ELSE [precision |-> 0, flags |-> flags \cup {"PRECISION"}, pos |-> i + 1,
               va |-> va]
    ELSE [precision |-> 0, flags |-> flags, pos |-> i, va |-> va]

\* The size a one-letter modifier for a type of the platform maps to:
\* ptrdiff_t and size_t are long's size on both builds, intmax_t only on LP64.
SizeLikeLong(sameAsLong) == IF sameAsLong THEN "LONG" ELSE "LONG_LONG"

\* evaluate size field.
EvalSize(f, i, bld) ==
    CASE At(f, i) = CH_l ->
            IF At(f, i + 1) = CH_l THEN [size |-> "LONG_LONG", pos |-> i + 2]
                                   ELSE [size |-> "LONG", pos |-> i + 1]
      [] At(f, i) = CH_h ->
            IF At(f, i + 1) = CH_h THEN [size |-> "CHAR", pos |-> i + 2]
                                   ELSE [size |-> "SHORT", pos |-> i + 1]
      [] At(f, i) = CH_t -> [size |-> SizeLikeLong(TRUE), pos |-> i + 1]
      [] At(f, i) = CH_j -> [size |-> SizeLikeLong(bld.lp64), pos |-> i + 1]
      [] At(f, i) = CH_z -> [size |-> SizeLikeLong(TRUE), pos |-> i + 1]
      [] OTHER -> [size |-> "DEFAULT", pos |-> i]

\* evaluate specifier: the State the handler is given, the format position
\* after the specifier byte, and the argument cursor after the '*' fields.
ParseSpecifier(f, wd, pr, sz) ==
    [st  |-> [flags |-> pr.flags, width |-> wd.width,
              precision |-> pr.precision, size |-> sz.size,
              specifier |-> At(f, sz.pos)],
     pos |-> sz.pos + 1,
     va  |-> pr.va]

\* The directive from its size field on (wd, pr: the width and precision read).
ParseSize(f, wd, pr, bld) == ParseSpecifier(f, wd, pr, EvalSize(f, pr.pos, bld))

\* The directive from its precision field on.
ParsePrecision(f, wd, args, bld) ==
    ParseSize(f, wd, EvalPrecision(f, wd.pos, wd.flags, args, wd.va), bld)

\* The directive from its width field on (fl: the flags read).
ParseWidth(f, fl, args, va, bld) ==
    ParsePrecision(f, EvalWidth(f, fl.pos, fl.flags, args, va), args, bld)

\* One directive, from the byte after its '%' to its specifier byte.
ParseDirective(f, i, args, va, bld) ==
    ParseWidth(f, EvalFlags(f, i, {}), args, va, bld)

(***************************************************************************)
(* int: _ntoa_intro, _ntoa_outro and the _define_ntoa converters.          *)
(* A converter is given the State st and gives back the State as it left   *)
(* it and the bytes it passed to fmt_state_putchar, in order.              *)
(***************************************************************************)

\* The number of sign / base-prefix bytes _ntoa_intro reserves.
NExtra(st, base, sign) ==
    CASE base = 2  -> IF "HASH" \in st.flags /\ sign # 0 THEN 2 ELSE 0
      [] base = 8  -> IF "HASH" \in st.flags /\ sign # 0 THEN 1 ELSE 0
      [] base = 10 -> IF st.flags \cap {"PLUS", "SPACE"} # {} THEN 1
                      ELSE IF sign < 0 THEN 1 ELSE 0
      [] base = 16 -> IF "HASH" \in st.flags /\ sign # 0 THEN 2 ELSE 0
      [] OTHER     -> 0

\* Variant: the base prefix is emitted for the value zero too.
NtoaFrame_on_zero(st, base, sign) ==
    CASE base = 2  -> IF "HASH" \in st.flags THEN <<CH_ZERO, CH_b>> ELSE << >>
      [] base = 8  -> IF "HASH" \in st.flags THEN <<CH_ZERO>> ELSE << >>
      [] base = 10 -> IF sign < 0 THEN <<CH_MINUS>>
                      ELSE IF "PLUS" \in st.flags THEN <<CH_PLUS>>
                      ELSE IF "SPACE" \in st.flags THEN <<CH_SPACE>>
                      ELSE << >>
      [] base = 16 -> IF "HASH" \in st.flags
                      THEN <<CH_ZERO, st.specifier>> ELSE << >>
      [] OTHER     -> << >>

\* emit base or sign.
NtoaFrame(st, base, sign) ==
    CASE base = 2  -> IF "HASH" \in st.flags /\ sign # 0 THEN <<CH_ZERO, CH_b>> ELSE << >>
      [] base = 8  -> IF "HASH" \in st.flags /\ sign # 0 THEN <<CH_ZERO>> ELSE << >>
      [] base = 10 -> IF sign < 0 THEN <<CH_MINUS>>
                      ELSE IF "PLUS" \in st.flags THEN <<CH_PLUS>>
                      ELSE IF "SPACE" \in st.flags THEN <<CH_SPACE>>
                      ELSE << >>
      [] base = 16 -> IF "HASH" \in st.flags /\ sign # 0
                      THEN <<CH_ZERO, st.specifier>> ELSE << >>
      [] OTHER     -> << >>

\* emit leading zeroes.
NtoaZeros(st, ndigits, nextra, sign) ==
    IF "PRECISION" \in st.flags
    THEN Rep(CH_ZERO, st.precision - ndigits)
    ELSE IF st.width # 0 /\ "LEFT" \notin st.flags /\ "ZEROPAD" \in st.flags
    THEN Rep(CH_ZERO, st.width - (ndigits + nextra))
    ELSE IF sign = 0
    THEN <<CH_ZERO>>
    ELSE << >>

\* Variant: the base or sign is emitted before the leading spaces.
_ntoa_intro_frame_first(st, base, ndigits, sign) ==
    LET nextra == NExtra(st, base, sign)
        st1 == IF "PRECISION" \in st.flags
               THEN [st EXCEPT !.flags = @ \ {"ZEROPAD"}] ELSE st
        lead == IF st1.width # 0 /\ "LEFT" \notin st1.flags /\ "ZEROPAD" \notin st1.flags
                THEN Rep(CH_SPACE, st1.width - (Max(st1.precision, ndigits) + nextra))
                ELSE << >>
    IN  [st   |-> st1,
         emit |-> NtoaFrame(st1, base, sign) \o lead
                       \o NtoaZeros(st1, ndigits, nextra, sign)]

_ntoa_intro(st, base, ndigits, sign) ==
    LET nextra == NExtra(st, base, sign)
        \* ignore '0' flag when precision is given
        st1 == IF "PRECISION" \in st.flags
               THEN [st EXCEPT !.flags = @ \ {"ZEROPAD"}] ELSE st
        \* emit leading spaces
        lead == IF st1.width # 0 /\ "LEFT" \notin st1.flags /\ "ZEROPAD" \notin st1.flags
                THEN Rep(CH_SPACE, st1.width - (Max(st1.precision, ndigits) + nextra))
                ELSE << >>
    IN  [st   |-> st1,
         emit |-> lead \o NtoaFrame(st1, base, sign)
                       \o NtoaZeros(st1, ndigits, nextra, sign)]

\* emit trailing spaces: until the bytes emitted since start_idx reach width.
_ntoa_outro(st, emitted) ==
    emitted \o Rep(CH_SPACE, st.width - Len(emitted))

\* The digit-counting loop: div is multiplied by base (in the unsigned type,
\* of the given width) while absval / div >= base.
RECURSIVE NtoaCount(_, _, _, _, _)
NtoaCount(absval, base, div, ndigits, bits) ==
    IF absval \div div >= base
    THEN NtoaCount(absval, base, WrapU(div * base, bits), ndigits + 1, bits)
    ELSE [div |-> div, ndigits |-> ndigits]

\* Variant: the digits above 9 are lower case whatever the specifier.
DigitChar_lower(digit, specifier) ==
    IF digit < 10 THEN CH_ZERO + digit
    ELSE CH_a + digit - 10

DigitChar(digit, specifier) ==
    IF digit < 10 THEN CH_ZERO + digit
    ELSE (IF _is_upper(specifier) THEN CH_A ELSE CH_a) + digit - 10

\* emit the main number: ndigits digits, most significant first.
RECURSIVE NtoaDigits(_, _, _, _, _)
NtoaDigits(absval, div, base, n, specifier) ==
    IF n = 0 THEN << >>
    ELSE <<DigitChar(absval \div div, specifier)>>
         \o NtoaDigits(absval % div, div \div base, base, n - 1, specifier)

\* emit the main number and the trailing spaces, after _ntoa_intro.
NtoaBody(absval, base, cnt, intro) ==
    [st   |-> intro.st,
     emit |-> _ntoa_outro(intro.st,
                  intro.emit \o NtoaDigits(absval, cnt.div, base, cnt.ndigits,
                                           intro.st.specifier))]

\* _ntoa once the digits are counted: cnt = [div, ndigits].
NtoaCounted(st, absval, sign, base, cnt) ==
    NtoaBody(absval, base, cnt, _ntoa_intro(st, base, cnt.ndigits, sign))

\* _ntoa, _ntoal, _ntoall: bits is the width of the unsigned type.
_ntoa(st, absval, negative, base, bits) ==
    NtoaCounted(st, absval,
                IF absval # 0 THEN (IF negative THEN -1 ELSE 1) ELSE 0,
                base,
                IF absval # 0 THEN NtoaCount(absval, base, 1, 1, bits)
                ELSE [div |-> 1, ndigits |-> 0])

\* The width in bits of the integer type a size modifier selects.
IntBits(size, bld) ==
    CASE size = "LONG_LONG" -> 64
      [] size = "LONG"      -> IF bld.lp64 THEN 64 ELSE 32
      [] OTHER              -> 32

\* A two's-complement cast of v to a signed type of the given width.
ToSigned(v, bits) ==
    LET m == v % (2^bits) IN IF m >= 2^(bits - 1) THEN m - 2^bits ELSE m

(***************************************************************************)
(* Magnitudes from 2^31 on.  The checker's integers end at 2^31 - 1, so an *)
(* unsigned value of 32 or 64 bits is also kept as a sequence of 16-bit     *)
(* limbs, least significant first (2 limbs for 32 bits, 4 for 64), and the  *)
(* loops of _ntoa, _ntoal and _ntoall are computed on limbs with the        *)
(* wrap-around of the unsigned type.                                        *)
(***************************************************************************)
LIMB == 2^16

\* The limbs of n, 0 <= n < 2^31.
Limbs(n, len) ==
    [i \in 1..len |-> IF i = 1 THEN n % LIMB ELSE IF i = 2 THEN n \div LIMB ELSE 0]

WideIsZero(a) == \A i \in 1..Len(a) : a[i] = 0

\* a >= b, compared from limb i down.
RECURSIVE WideGeqAt(_, _, _)
WideGeqAt(a, b, i) ==
    IF i = 0 THEN TRUE
    ELSE IF a[i] # b[i] THEN a[i] > b[i]
    ELSE WideGeqAt(a, b, i - 1)

WideGeq(a, b) == WideGeqAt(a, b, Len(a))

\* a - b modulo 2^w, from limb i up.
RECURSIVE WideSubFrom(_, _, _, _)
WideSubFrom(a, b, i, borrow) ==
    IF i > Len(a) THEN << >>
    ELSE <<(a[i] - b[i] - borrow + LIMB) % LIMB>>
         \o WideSubFrom(a, b, i + 1, IF a[i] - b[i] - borrow < 0 THEN 1 ELSE 0)

WideSub(a, b) == WideSubFrom(a, b, 1, 0)

\* a * m modulo 2^w for a small m, from limb i up.
RECURSIVE WideMulFrom(_, _, _, _)
WideMulFrom(a, m, i, carry) ==
    IF i > Len(a) THEN << >>
    ELSE <<(a[i] * m + carry) % LIMB>>
         \o WideMulFrom(a, m, i + 1, (a[i] * m + carry) \div LIMB)

WideMul(a, m) == WideMulFrom(a, m, 1, 0)

\* a / m for a small m, from limb i down.
RECURSIVE WideDivFrom(_, _, _, _)
WideDivFrom(a, m, i, rem) ==
    IF i = 0 THEN << >>
    ELSE WideDivFrom(a, m, i - 1, (rem * LIMB + a[i]) % m)
         \o <<(rem * LIMB + a[i]) \div m>>

WideDiv(a, m) == WideDivFrom(a, m, Len(a), 0)

\* a / d as far as cap: the quotient when it is below cap, cap otherwise.
RECURSIVE WideQuot(_, _, _)
WideQuot(a, d, cap) ==
    IF cap = 0 \/ ~WideGeq(a, d) THEN 0
    ELSE 1 + WideQuot(WideSub(a, d), d, cap - 1)

\* a - q * d.
RECURSIVE WideRem(_, _, _)
WideRem(a, d, q) == IF q = 0 THEN a ELSE WideRem(WideSub(a, d), d, q - 1)

\* The digit-counting loop on limbs; it stops on a divisor that wrapped to 0
\* (the division by it is undefined).
RECURSIVE NtoaWideCount(_, _, _, _)
NtoaWideCount(absval, base, div, ndigits) ==
    IF ~WideIsZero(div) /\ WideQuot(absval, div, base) >= base
    THEN NtoaWideCount(absval, base, WideMul(div, base), ndigits + 1)
    ELSE [div |-> div, ndigits |-> ndigits]

\* emit the main number on limbs: digit = absval / div (held in a char),
\* absval %= div, div /= base.
RECURSIVE NtoaWideDigits(_, _, _, _, _)
NtoaWideDigits(absval, div, base, n, specifier) ==
    IF n = 0 THEN << >>
    ELSE <<DigitChar(WideQuot(absval, div, 255), specifier)>>
         \o NtoaWideDigits(WideRem(absval, div, WideQuot(absval, div, 255)),
                           WideDiv(div, base), base, n - 1, specifier)

NtoaWideBody(absval, base, cnt, intro) ==
    [st   |-> intro.st,
     emit |-> _ntoa_outro(intro.st,
                  intro.emit \o NtoaWideDigits(absval, cnt.div, base, cnt.ndigits,
                                               intro.st.specifier))]

NtoaWideCounted(st, absval, sign, base, cnt) ==
    NtoaWideBody(absval, base, cnt, _ntoa_intro(st, base, cnt.ndigits, sign))

\* _ntoa, _ntoal, _ntoall on limbs: the width of the unsigned type is that
\* of absval.
NtoaWide(st, absval, negative, base) ==
    NtoaWideCounted(st, absval,
                    IF ~WideIsZero(absval) THEN (IF negative THEN -1 ELSE 1) ELSE 0,
                    base,
                    IF ~WideIsZero(absval)
                    THEN NtoaWideCount(absval, base, Limbs(1, Len(absval)), 1)
                    ELSE [div |-> Limbs(1, Len(absval)), ndigits |-> 0])

\* An argument passed as its two's-complement pattern on limbs.
IsWide(args, va) == va \in 1..Len(args) /\ args[va].t = "wide"

\* The pattern read in the type of the given width.
WidePattern(arg, bits) ==
    [i \in 1..(bits \div 16) |-> IF i <= Len(arg.s) THEN arg.s[i] ELSE 0]

\* The int read for the short and char forms: the low limb of a pattern.
IntArg(args, va) == IF IsWide(args, va) THEN args[va].s[1] ELSE va_arg(args, va)

\* The pattern is negative in the signed type, and it is the minimum of the
\* signed type.
WideNegative(a) == a[Len(a)] >= 2^15

WideMinimum(a) ==
    /\ a[Len(a)] = 2^15
    /\ \A i \in 1..(Len(a) - 1) : a[i] = 0

(***************************************************************************)
(* Built-in handlers.  A handler gives [st, emit, va]: the State as it     *)
(* left it, the bytes it emitted, and the argument cursor after its pops.  *)
(***************************************************************************)
\* What a handler gives back: what its converter r did, and the cursor va.
Popped(r, va) == [st |-> r.st, emit |-> r.emit, va |-> va]

\* The value conv_sint converts: the argument cast to the type of the size.
SintValue(st, raw, bld) ==
    CASE st.size = "SHORT" -> ToSigned(raw, 16)
      [] st.size = "CHAR"  -> IF bld.charSigned THEN ToSigned(raw, 8) ELSE raw % 256
      [] OTHER             -> raw

\* The _ntoa call of conv_sint.
SintConverted(st, value, bits) ==
    _ntoa(st, WrapU(IF value > 0 THEN value ELSE 0 - value, bits), value < 0, 10, bits)

\* The _ntoa call of conv_sint on limbs: the magnitude is 0 - value for a
\* negative value, taken modulo 2^w.
SintWide(st, pattern) ==
    NtoaWide(st,
             IF WideNegative(pattern)
             THEN WideSub(Limbs(0, Len(pattern)), pattern) ELSE pattern,
             WideNegative(pattern), 10)

conv_sint(st, args, va, bld) ==
    IF IsWide(args, va) /\ st.size \notin {"SHORT", "CHAR"}
    THEN Popped(SintWide(st, WidePattern(args[va], IntBits(st.size, bld))), va + 1)
    ELSE Popped(SintConverted(st, SintValue(st, IntArg(args, va), bld),
                              IntBits(st.size, bld)),
                va + 1)

\* select base
UintBase(specifier) ==
    CASE specifier \in {CH_x, CH_X} -> 16
      [] specifier = CH_o -> 8
      [] specifier = CH_b -> 2
      [] OTHER -> 10

\* The value conv_uint converts: the argument cast to the type of the size.
UintValue(st, raw, bits) ==
    CASE st.size = "SHORT" -> WrapU(raw, 16)
      [] st.size = "CHAR"  -> WrapU(raw, 8)
      [] OTHER             -> WrapU(raw, bits)

\* no plus or space flag for u
UintFlags(st) ==
    IF st.specifier = CH_u
    THEN [st EXCEPT !.flags = @ \ {"PLUS", "SPACE"}] ELSE st

conv_uint(st, args, va, bld) ==
    IF IsWide(args, va) /\ st.size \notin {"SHORT", "CHAR"}
    THEN Popped(NtoaWide(UintFlags(st),
                         WidePattern(args[va], IntBits(st.size, bld)),
                         FALSE, UintBase(st.specifier)),
                va + 1)
    ELSE Popped(_ntoa(UintFlags(st),
                      UintValue(st, IntArg(args, va), IntBits(st.size, bld)),
                      FALSE, UintBase(st.specifier), IntBits(st.size, bld)),
                va + 1)

conv_char(st, args, va, bld) ==
    LET pad == Rep(CH_SPACE, st.width - 1)
        ch  == va_arg(args, va) % 256
    IN  [st   |-> st,
         emit |-> (IF "LEFT" \notin st.flags THEN pad ELSE << >>)
                  \o <<ch>>
                  \o (IF "LEFT" \in st.flags THEN pad ELSE << >>),
         va   |-> va + 1]

\* Variant: the padding is computed from the length before the cap.
conv_str_pads_whole(st, args, va, bld) ==
    LET p  == va_arg(args, va)
        l0 == _strnlen_s(p, IF st.precision # 0 THEN st.precision ELSE SIZE_MAX)
        l  == IF "PRECISION" \in st.flags
              THEN (IF l0 < st.precision THEN l0 ELSE st.precision) ELSE l0
        pad == Rep(CH_SPACE, st.width - l0)
        \* string output: stops at the NUL, or when precision-- finds 0
        n  == IF "PRECISION" \in st.flags /\ st.precision < Len(p)
              THEN st.precision ELSE Len(p)
        \* the last precision-- finds 0 and wraps to UINT_MAX (written -1)
        precAfter == IF "PRECISION" \notin st.flags THEN st.precision
                     ELSE IF st.precision < Len(p) THEN -1
                     ELSE st.precision - Len(p)
    IN  [st   |-> [st EXCEPT !.precision = precAfter],
         emit |-> (IF "LEFT" \notin st.flags THEN pad ELSE << >>)
                  \o SubSeq(p, 1, n)
                  \o (IF "LEFT" \in st.flags THEN pad ELSE << >>),
         va   |-> va + 1]

conv_str(st, args, va, bld) ==
    LET p  == va_arg(args, va)
        l0 == _strnlen_s(p, IF st.precision # 0 THEN st.precision ELSE SIZE_MAX)
        l  == IF "PRECISION" \in st.flags
              THEN (IF l0 < st.precision THEN l0 ELSE st.precision) ELSE l0
        pad == Rep(CH_SPACE, st.width - l)
        \* string output: stops at the NUL, or when precision-- finds 0
        n  == IF "PRECISION" \in st.flags /\ st.precision < Len(p)
              THEN st.precision ELSE Len(p)
        \* the last precision-- finds 0 and wraps to UINT_MAX (written -1)
        precAfter == IF "PRECISION" \notin st.flags THEN st.precision
                     ELSE IF st.precision < Len(p) THEN -1
                     ELSE st.precision - Len(p)
    IN  [st   |-> [st EXCEPT !.precision = precAfter],
         emit |-> (IF "LEFT" \notin st.flags THEN pad ELSE << >>)
                  \o SubSeq(p, 1, n)
                  \o (IF "LEFT" \in st.flags THEN pad ELSE << >>),
         va   |-> va + 1]

\* sizeof(void *)
PtrBytes(bld) == IF bld.lp64 THEN 8 ELSE 4

conv_ptr(st, args, va, bld) ==
    Popped(_ntoa([st EXCEPT !.width = PtrBytes(bld) * 2,
                            !.flags = @ \cup {"ZEROPAD"},
                            !.specifier = CH_X],
                 WrapU(va_arg(args, va), 8 * PtrBytes(bld)), FALSE, 16,
                 8 * PtrBytes(bld)),
           va + 1)

conv_pct(st, args, va, bld) ==
    [st |-> st, emit |-> <<CH_PCT>>, va |-> va]

(***************************************************************************)
(* float.  A double is [cls, neg, num, den]: cls is "nan", "inf" or "fin", *)
(* and a finite value is (-1)^neg * num / den.  The arithmetic of _ftoa is *)
(* exact on the values used (a small binary fraction times 10^precision is *)
(* representable), so it is done on the fraction num / den.                *)
(***************************************************************************)
PICO_PRINTF_FTOA_BUFFER_SIZE == 32

PICO_PRINTF_DEFAULT_FLOAT_PRECISION == 6

PICO_PRINTF_MAX_FLOAT == 1000000000

\* array_len(pow10)
POW10_LEN == 10

Reverse(s) == [i \in 1..Len(s) |-> s[Len(s) + 1 - i]]

\* output the specified string in reverse, taking care of any zero-padding.
\* buf holds the bytes in the order they were stored (last stored first out).
_out_rev(st, buf) ==
    LET lead == IF "LEFT" \notin st.flags /\ "ZEROPAD" \notin st.flags
                THEN Rep(CH_SPACE, st.width - Len(buf)) ELSE << >>
        body == lead \o Reverse(buf)
    IN  IF "LEFT" \in st.flags
        THEN body \o Rep(CH_SPACE, st.width - Len(body))
        ELSE body

STR_nan == Bytes(<<"n", "a", "n">>)
STR_inf == Bytes(<<"i", "n", "f">>)

\* _float_special: the bytes emitted for NaN and the infinities (the code
\* passes the reversed literals "nan", "fni-", "fni+" / "fni" to _out_rev).
_float_special(st, value) ==
    CASE value.cls = "nan" -> _out_rev(st, Reverse(STR_nan))
      [] value.cls = "inf" /\ value.neg -> _out_rev(st, Reverse(<<CH_MINUS>> \o STR_inf))
      [] value.cls = "inf" /\ ~value.neg ->
            _out_rev(st, Reverse((IF "PLUS" \in st.flags THEN <<CH_PLUS>> ELSE << >>)
                                 \o STR_inf))
      [] OTHER -> << >>

IsSpecial(value) == value.cls # "fin"

STR_exceeded_ftoa ==
    Bytes(<<"%", "!", "(", "e", "x", "c", "e", "e", "d", "e", "d", " ",
            "P", "I", "C", "O", "_", "P", "R", "I", "N", "T", "F", "_",
            "F", "T", "O", "A", "_", "B", "U", "F", "F", "E", "R", "_",
            "S", "I", "Z", "E", ")">>)

STR_exceeded_max ==
    Bytes(<<"%", "!", "(", "e", "x", "c", "e", "e", "d", "e", "d", " ",
            "P", "I", "C", "O", "_", "P", "R", "I", "N", "T", "F", "_",
            "M", "A", "X", "_", "F", "L", "O", "A", "T", ")">>)

\* Variant: the writes are not guarded, the buffer takes every byte.
BufPush_unguarded(b, s) == [buf |-> b.buf \o s, over |-> FALSE]

\* buf[len++] = ... for each byte of s in turn, each write guarded by
\* `if (len == PICO_PRINTF_FTOA_BUFFER_SIZE) goto ftoa_exceeded`.
\* b = [buf, over]: over is set once the jump is taken.
BufPush(b, s) ==
    IF b.over THEN b
    ELSE IF Len(b.buf) + Len(s) > PICO_PRINTF_FTOA_BUFFER_SIZE
    THEN [buf |-> b.buf \o SubSeq(s, 1, PICO_PRINTF_FTOA_BUFFER_SIZE - Len(b.buf)),
          over |-> TRUE]
    ELSE [buf |-> b.buf \o s, over |-> FALSE]

\* The decimal digits of n, least significant first (at least one digit):
\* the do { buf[len++] = '0' + n % 10 } while (n /= 10) loops.
RECURSIVE DigitsRev(_)
DigitsRev(n) ==
    IF n < 10 THEN <<CH_ZERO + n>>
    ELSE <<CH_ZERO + (n % 10)>> \o DigitsRev(n \div 10)

Pow10(p) == 10^p

\* Variant: at precision 0 a value halfway between two integers is rounded
\* up whatever the parity of the whole part.
FtoaRound_half_up(num, den, p) ==
    LET whole0 == num \div den
        scaled == (num % den) * Pow10(p)
        frac0  == scaled \div den
        diff2  == 2 * (scaled % den)
        up     == diff2 > den
        half   == diff2 = den
        frac1  == IF up THEN (IF frac0 + 1 >= Pow10(p) THEN 0 ELSE frac0 + 1)
                  ELSE IF half /\ (frac0 = 0 \/ frac0 % 2 = 1) THEN frac0 + 1
                  ELSE frac0
        whole1 == IF up /\ frac0 + 1 >= Pow10(p) THEN whole0 + 1 ELSE whole0
        d2     == 2 * (num - whole1 * den)
        whole2 == IF p = 0 /\ d2 = den THEN whole1 + 1 ELSE whole1
    IN  [whole |-> whole2, frac |-> frac1]

\* Variant: a scaled fraction exactly halfway is rounded up when frac is even
\* or zero, and kept when it is odd.
FtoaRound_even_up(num, den, p) ==
    LET whole0 == num \div den
        scaled == (num % den) * Pow10(p)
        frac0  == scaled \div den
        diff2  == 2 * (scaled % den)
        up     == diff2 > den
        half   == diff2 = den
        frac1  == IF up THEN (IF frac0 + 1 >= Pow10(p) THEN 0 ELSE frac0 + 1)
                  ELSE IF half /\ (frac0 = 0 \/ frac0 % 2 = 0) THEN frac0 + 1
                  ELSE frac0
        whole1 == IF up /\ frac0 + 1 >= Pow10(p) THEN whole0 + 1 ELSE whole0
        d2     == 2 * (num - whole1 * den)
        whole2 == IF p = 0 /\ d2 = den /\ whole1 % 2 = 1 THEN whole1 + 1 ELSE whole1
    IN  [whole |-> whole2, frac |-> frac1]

\* The rounding of _ftoa: whole and frac of the non-negative num/den at
\* precision p (0..9).  tmp = (value - whole) * pow10[p]; diff = tmp - frac.
FtoaRound(num, den, p) ==
    LET whole0 == num \div den
        scaled == (num % den) * Pow10(p)          \* tmp * den
        frac0  == scaled \div den
        diff2  == 2 * (scaled % den)              \* 2 * diff * den
        up     == diff2 > den
        half   == diff2 = den
        frac1  == IF up THEN (IF frac0 + 1 >= Pow10(p) THEN 0 ELSE frac0 + 1)
                  ELSE IF half /\ (frac0 = 0 \/ frac0 % 2 = 1) THEN frac0 + 1
                  ELSE frac0
        whole1 == IF up /\ frac0 + 1 >= Pow10(p) THEN whole0 + 1 ELSE whole0
        \* precision 0: diff = value - whole, against the whole as rounded so far
        d2     == 2 * (num - whole1 * den)
        whole2 == IF p = 0 /\ d2 = den /\ whole1 % 2 = 1 THEN whole1 + 1 ELSE whole1
    IN  [whole |-> whole2, frac |-> frac1]

\* _ftoa from the sign on: b is the buffer with the digits and the zero padding.
FtoaSigned(st, negative, b) ==
    IF negative THEN BufPush(b, <<CH_MINUS>>)
    ELSE IF "PLUS" \in st.flags THEN BufPush(b, <<CH_PLUS>>)
    ELSE IF "SPACE" \in st.flags THEN BufPush(b, <<CH_SPACE>>)
    ELSE b

\* The end of _ftoa: st1 is the State as _ftoa leaves it, b the whole buffer.
FtoaOut(st1, b) ==
    IF b.over
    THEN [st |-> st1, emit |-> STR_exceeded_ftoa]
    ELSE [st |-> st1, emit |-> _out_rev(st1, b.buf)]

\* state->width after `pad leading zeros`.
FtoaWidth(st, negative) ==
    IF "LEFT" \notin st.flags /\ "ZEROPAD" \in st.flags /\ st.width # 0
       /\ (negative \/ st.flags \cap {"PLUS", "SPACE"} # {})
    THEN st.width - 1 ELSE st.width

\* pad leading zeros, then the sign: b is the buffer with the digits.
FtoaBuf(st, negative, b) ==
    FtoaSigned(st, negative,
        IF "LEFT" \notin st.flags /\ "ZEROPAD" \in st.flags
        THEN BufPush(b, Rep(CH_ZERO, FtoaWidth(st, negative) - Len(b.buf)))
        ELSE b)

\* _ftoa from the padding on: p is the precision used.
FtoaPadded(st, negative, p, b) ==
    FtoaOut([st EXCEPT !.precision = p, !.width = FtoaWidth(st, negative)],
            FtoaBuf(st, negative, b))

\* fractional part, extra 0s and the decimal point: fd is the digits of frac.
FtoaFraction(b, p, fd) ==
    IF p = 0 THEN b
    ELSE IF Len(fd) > p
    \* count wraps below zero: zeros are added until the buffer is full
    THEN BufPush(BufPush(b, fd), Rep(CH_ZERO, PICO_PRINTF_FTOA_BUFFER_SIZE + 1))
    ELSE BufPush(b, fd \o Rep(CH_ZERO, p - Len(fd)) \o <<CH_DOT>>)

\* _ftoa from the digits on: r = [whole, frac] as rounded; whole part, number
\* is reversed.
FtoaDigits(st, negative, p, b, r) ==
    FtoaPadded(st, negative, p,
               BufPush(FtoaFraction(b, p, DigitsRev(r.frac)), DigitsRev(r.whole)))

\* _ftoa once the precision prec0 is set: limit precision, we don't want to
\* overflow pow10[].
FtoaLimited(st, value, prec0) ==
    FtoaDigits(st, value.neg /\ value.num # 0,
               IF prec0 >= POW10_LEN THEN POW10_LEN - 1 ELSE prec0,
               BufPush([buf |-> << >>, over |-> FALSE],
                       Rep(CH_ZERO, IF prec0 >= POW10_LEN
                                    THEN prec0 - (POW10_LEN - 1) ELSE 0)),
               FtoaRound(value.num, value.den,
                         IF prec0 >= POW10_LEN THEN POW10_LEN - 1 ELSE prec0))

\* internal ftoa for fixed decimal floating point.
_ftoa(st, value) ==
    IF IsSpecial(value) THEN [st |-> st, emit |-> _float_special(st, value)]
    \* set default precision, if not set explicitly
    ELSE FtoaLimited(st, value,
                     IF "PRECISION" \notin st.flags
                     THEN PICO_PRINTF_DEFAULT_FLOAT_PRECISION ELSE st.precision)

\* The decimal exponent of the positive value num/den: the e with
\* 10^e <= num/den < 10^(e+1).  The code estimates it from the binary
\* exponent and corrects the estimate by one (lines 493-514); for zero and
\* for values in [1, 10) the result is 0 and the value is not rescaled.
\* The code's 10^e is itself a floating-point approximation: where it comes
\* out above the value (1e9 is rendered 10.000000e+08) the code's exponent
\* is one less than this one; such values are not among the inputs.
RECURSIVE DecimalExponent(_, _)
DecimalExponent(num, den) ==
    IF num < den THEN DecimalExponent(num * 10, den) - 1
    ELSE IF num \div den >= 10 THEN DecimalExponent(num, den * 10) + 1
    ELSE 0

\* value / 10^e, as a fraction.
Rescale(value, e) ==
    IF e >= 0 THEN [value EXCEPT !.den = @ * Pow10(e)]
    ELSE [value EXCEPT !.num = @ * Pow10(0 - e)]

\* output the exponent part
EtoaExponent(st, minwidth, expval) ==
    IF minwidth # 0
    THEN <<IF _is_upper(st.specifier) THEN CH_E ELSE CH_e>>
         \o _ntoa([flags |-> {"ZEROPAD", "PLUS"}, width |-> minwidth - 1,
                   precision |-> 0, size |-> "CHAR", specifier |-> CH_d],
                  IF expval < 0 THEN 0 - expval ELSE expval,
                  expval < 0, 10, 32).emit
    ELSE << >>

\* The end of _etoa: body is the floating part and the exponent part; might
\* need to right-pad spaces.
EtoaOut(st, prec1, flags1, minwidth, body) ==
    [st   |-> [st EXCEPT !.precision = prec1, !.flags = flags1],
     emit |-> IF minwidth # 0 /\ "LEFT" \in flags1
              THEN body \o Rep(CH_SPACE, st.width - Len(body))
              ELSE body]

\* will everything fit?
EtoaFwidth(st, flags1, minwidth) ==
    IF "LEFT" \in flags1 /\ minwidth # 0 THEN 0
    ELSE IF st.width > minwidth THEN st.width - minwidth ELSE 0

\* _ftoa for the floating part, then the exponent part.
EtoaParts(st, value, prec1, flags1, minwidth, expval) ==
    EtoaOut(st, prec1, flags1, minwidth,
            _ftoa([flags |-> flags1, width |-> EtoaFwidth(st, flags1, minwidth),
                   precision |-> prec1, size |-> "CHAR", specifier |-> CH_f],
                  IF expval # 0 THEN Rescale(value, expval) ELSE value).emit
            \o EtoaExponent(st, minwidth, expval))

\* in "%g" mode, "precision" is the number of *significant figures* not
\* decimals; fallback says whether "%f" mode is used.
EtoaMode(st, value, adapt_exp, prec0, expval0, fallback) ==
    EtoaParts(st, value,
              IF ~adapt_exp THEN prec0
              ELSE IF fallback
              THEN (IF prec0 > expval0 THEN prec0 - expval0 - 1 ELSE 0)
              ELSE IF prec0 > 0 /\ "PRECISION" \in st.flags THEN prec0 - 1
              ELSE prec0,
              IF fallback THEN st.flags \cup {"PRECISION"} ELSE st.flags,
              IF fallback THEN 0
              ELSE IF expval0 < 100 /\ expval0 > -100 THEN 4 ELSE 5,
              IF fallback THEN 0 ELSE expval0)

\* _etoa once the precision and the decimal exponent are set: do we want to
\* fall-back to "%f" mode?
EtoaExp(st, value, adapt_exp, prec0, expval0) ==
    EtoaMode(st, value, adapt_exp, prec0, expval0,
             adapt_exp /\ (value.num = 0
                           \/ ((value.num >= value.den
                                \/ value.num * 10000 >= value.den)
                               /\ value.num \div value.den < 1000000)))

\* internal ftoa variant for exponential floating-point type.
_etoa(st, value, adapt_exp) ==
    IF IsSpecial(value) THEN [st |-> st, emit |-> _float_special(st, value)]
    ELSE EtoaExp(st, value, adapt_exp,
                 \* default precision
                 IF "PRECISION" \notin st.flags
                 THEN PICO_PRINTF_DEFAULT_FLOAT_PRECISION ELSE st.precision,
                 IF value.num = 0 THEN 0
                 ELSE DecimalExponent(value.num, value.den))

\* value > PICO_PRINTF_MAX_FLOAT && value < DBL_MAX, for a finite magnitude.
ExceedsMaxFloat(value) ==
    /\ value.cls = "fin"
    /\ \/ value.num \div value.den > PICO_PRINTF_MAX_FLOAT
       \/ (value.num \div value.den = PICO_PRINTF_MAX_FLOAT /\ value.num % value.den # 0)

\* Variant: the magnitude is tested for every float specifier.
DoubleConverted_tests_all(st, value) ==
    IF ExceedsMaxFloat(value) THEN [st |-> st, emit |-> STR_exceeded_max]
    ELSE CASE st.specifier \in {CH_f, CH_F} -> _ftoa(st, value)
           [] st.specifier \in {CH_e, CH_E} -> _etoa(st, value, FALSE)
           [] st.specifier \in {CH_g, CH_G} -> _etoa(st, value, TRUE)
           [] OTHER -> [st |-> st, emit |-> << >>]

\* The converter conv_double calls for the specifier, on the double popped.
DoubleConverted(st, value) ==
    CASE st.specifier \in {CH_f, CH_F} ->
            IF ExceedsMaxFloat(value)
            THEN [st |-> st, emit |-> STR_exceeded_max]
            ELSE _ftoa(st, value)
      [] st.specifier \in {CH_e, CH_E} -> _etoa(st, value, FALSE)
      [] st.specifier \in {CH_g, CH_G} -> _etoa(st, value, TRUE)
      [] OTHER -> [st |-> st, emit |-> << >>]

conv_double(st, args, va, bld) ==
    Popped(DoubleConverted(st, va_arg(args, va)), va + 1)

(***************************************************************************)
(* main: the specifier table, fmt_install and the driver.                  *)
(***************************************************************************)

\* array_len(specifier_table)
TABLE_LEN == 127

\* The handlers a caller installs (fmt_specifier_t functions of the caller):
\* "hA" emits the constant <A> and pops nothing; "hB" pops one int and emits
\* B followed by its last decimal digit.
CustomHandlers == {"hA", "hB"}

CustomHandler(h, st, args, va, bld) ==
    IF h = "hA"
    THEN [st |-> st, emit |-> Bytes(<<"<", "A", ">">>), va |-> va]
    ELSE LET v == va_arg(args, va)
         IN  [st |-> st,
              emit |-> <<Ord("B"), CH_ZERO + ((IF v < 0 THEN 0 - v ELSE v) % 10)>>,
              va |-> va + 1]

\* static fmt_specifier_t specifier_table[0x7F] = { ... }
BuiltinTable ==
    [b \in 0..(TABLE_LEN - 1) |->
        CASE b \in {CH_d, CH_i} -> "conv_sint"
          [] b \in {CH_u, CH_x, CH_X, CH_o, CH_b} -> "conv_uint"
          [] b \in {CH_f, CH_F, CH_e, CH_E, CH_g, CH_G} -> "conv_double"
          [] b = CH_c -> "conv_char"
          [] b = CH_s -> "conv_str"
          [] b = CH_p -> "conv_ptr"
          [] b = CH_PCT -> "conv_pct"
          [] OTHER -> "NULL"]

\* Variant: the digits are not excluded.
fmt_install_any_printable(table, character, fn) ==
    LET idx == character
    IN  IF idx < TABLE_LEN /\ CH_SPACE < idx /\ idx <= CH_TILDE
        THEN [table EXCEPT ![idx] = fn]
        ELSE table

\* Variant: a slot that already holds a handler is kept.
fmt_install_keeps_existing(table, character, fn) ==
    LET idx == character
    IN  IF idx < TABLE_LEN /\ CH_SPACE < idx /\ idx <= CH_TILDE
           /\ ~(CH_ZERO <= idx /\ idx <= CH_NINE)
           /\ table[idx] = "NULL"
        THEN [table EXCEPT ![idx] = fn]
        ELSE table

\* fmt_install: the table after the call.
fmt_install(table, character, fn) ==
    LET idx == character   \* (unsigned char) character
    IN  IF idx < TABLE_LEN /\ CH_SPACE < idx /\ idx <= CH_TILDE
           /\ ~(CH_ZERO <= idx /\ idx <= CH_NINE)
        THEN [table EXCEPT ![idx] = fn]
        ELSE table

\* The call specifier_table[...](state).
Invoke(h, st, args, va, bld) ==
    CASE h = "conv_sint"   -> conv_sint(st, args, va, bld)
      [] h = "conv_uint"   -> conv_uint(st, args, va, bld)
      [] h = "conv_double" -> conv_double(st, args, va, bld)
      [] h = "conv_char"   -> conv_char(st, args, va, bld)
      [] h = "conv_str"    -> conv_str(st, args, va, bld)
      [] h = "conv_ptr"    -> conv_ptr(st, args, va, bld)
      [] h = "conv_pct"    -> conv_pct(st, args, va, bld)
      [] OTHER             -> CustomHandler(h, st, args, va, bld)

\* _put_quoted_byte: the bytes put for the unsigned char c.
_put_quoted_byte(c) ==
    <<CH_QUOTE>>
    \o (IF CH_SPACE <= c /\ c <= CH_TILDE
        THEN (IF c = CH_QUOTE \/ c = CH_BSLASH THEN <<CH_BSLASH>> ELSE << >>) \o <<c>>
        ELSE <<CH_BSLASH, CH_x, (c \div 16) % 16, c % 16>>)
    \o <<CH_QUOTE>>

STR_unknown ==
    Bytes(<<"%", "!", "(", "u", "n", "k", "n", "o", "w", "n", " ",
            "s", "p", "e", "c", "i", "f", "i", "e", "r", "=">>)

\* Variant: the index is the low seven bits of the specifier byte.
Lookup_low_bits(table, specifier, bld) ==
    IF specifier % 128 < TABLE_LEN
    THEN table[specifier % 128] ELSE "NULL"

\* The handler the driver finds for the specifier byte: "NULL" when the index
\* is outside the table or the slot is empty.
Lookup(table, specifier, bld) ==
    IF CharToUInt(specifier, bld) < TABLE_LEN
    THEN table[CharToUInt(specifier, bld)] ELSE "NULL"

\* What the driver has after the handler h returned r.
Called(h, r) == [st |-> r.st, emit |-> r.emit, va |-> r.va, called |-> h]

\* Variant: nothing is emitted for a specifier without a handler.
Dispatch_silent(table, st, args, va, bld) ==
    IF Lookup(table, st.specifier, bld) # "NULL"
    THEN Called(Lookup(table, st.specifier, bld),
                Invoke(Lookup(table, st.specifier, bld), st, args, va, bld))
    ELSE [st |-> st, emit |-> << >>, va |-> va, called |-> "NULL"]

\* evaluate specifier: dispatch to the handler or emit the diagnostic.  The
\* result names the handler that was called ("NULL" if none was).
Dispatch(table, st, args, va, bld) ==
    IF Lookup(table, st.specifier, bld) # "NULL"
    THEN Called(Lookup(table, st.specifier, bld),
                Invoke(Lookup(table, st.specifier, bld), st, args, va, bld))
    ELSE [st |-> st,
          emit |-> STR_unknown \o _put_quoted_byte(st.specifier) \o <<CH_RPAREN>>,
          va |-> va, called |-> "NULL"]

(***************************************************************************)
(* The state.                                                              *)
(*   build            the build of the library (char signedness, LP64)     *)
(*   specifier_table  the process-wide table                               *)
(*   input            the format and the arguments the calls are given     *)
(* and per top-level call c:                                               *)
(*   pc[c]    "idle", "run" (inside _vfctprintf) or "done" (returned)      *)
(*   ctx[c]   the struct _fmt_ctx of the call                              *)
(*   fpos[c]  the format cursor                                            *)
(*   va[c]    the argument cursors: the caller's va_list and _va_save      *)
(*   st[c]    the struct fmt_state (_state) as the last handler left it    *)
(*   ret[c]   the value returned                                           *)
(*   log[c]   history: one record per iteration of the driver's loop       *)
(* and                                                                     *)
(*   installs history: the calls of fmt_install, in order                  *)
(***************************************************************************)
VARIABLES build, specifier_table, input, pc, ctx, fpos, va, st, ret, log, installs

vars == <<build, specifier_table, input, pc, ctx, fpos, va, st, ret, log, installs>>

\* Call 1 is given a null sink function, call 2 a collecting one.
Calls == {1, 2}

Sink(c) == IF c = 1 THEN "NULL" ELSE "collect"

\* The call with the null sink, the call with the collecting sink.
Discarding == CHOOSE c \in Calls : Sink(c) = "NULL"
Collecting == CHOOSE c \in Calls : Sink(c) # "NULL"

NoInput == [format |-> << >>, args |-> << >>, chosen |-> FALSE]

\* struct fmt_state _state = { .args = va_save, .ctx = ctx }: the rest is zero.
ZeroState == [flags |-> {}, width |-> 0, precision |-> 0, size |-> "CHAR", specifier |-> 0]

\* Variant: _vfctprintf is handed the caller's va_list itself.
ArgsCursor_caller == "caller"

\* The cursor _vfctprintf is handed: fmt_vfctprintf passes &_va_save, the copy.
ArgsCursor == "save"

InitWith(builds) ==
    /\ build \in builds
    /\ specifier_table = BuiltinTable
    /\ input = NoInput
    /\ pc   = [c \in Calls |-> "idle"]
    /\ ctx  = [c \in Calls |-> [fct |-> Sink(c), idx |-> 0, sunk |-> << >>, put |-> << >>]]
    /\ fpos = [c \in Calls |-> 1]
    /\ va   = [c \in Calls |-> [caller |-> 1, save |-> 1]]
    /\ st   = [c \in Calls |-> ZeroState]
    /\ ret  = [c \in Calls |-> 0]
    /\ log  = [c \in Calls |-> << >>]
    /\ installs = << >>

Init == InitWith(Builds)

\* The most calls of fmt_install a program makes.
MaxInstalls == 2

\* fmt_install(character, fn), during initialisation (before any formatting call).
Install(character, fn) ==
    /\ \A c \in Calls : pc[c] = "idle"
    /\ Len(installs) < MaxInstalls
    /\ specifier_table' = fmt_install(specifier_table, character, fn)
    /\ installs' = Append(installs, [character |-> character, fn |-> fn])
    /\ UNCHANGED <<build, input, pc, ctx, fpos, va, st, ret, log>>

\* fmt_vfctprintf(fct, arg, format, va) up to the call of _vfctprintf: the
\* context is set up and the caller's cursor copied.  The first call fixes the
\* input (one of inputs), the other call is given the same.
Call(c, inputs) ==
    /\ pc[c] = "idle"
    /\ \A d \in Calls : pc[d] # "run"
    /\ IF input.chosen THEN UNCHANGED input
       ELSE \E in \in inputs :
                input' = [format |-> in.format, args |-> in.args, chosen |-> TRUE]
    /\ pc'   = [pc EXCEPT ![c] = "run"]
    /\ ctx'  = [ctx EXCEPT ![c] = [fct |-> Sink(c), idx |-> 0, sunk |-> << >>, put |-> << >>]]
    /\ fpos' = [fpos EXCEPT ![c] = 1]
    /\ va'   = [va EXCEPT ![c] = [caller |-> @.caller, save |-> @.caller]]
    /\ st'   = [st EXCEPT ![c] = ZeroState]
    /\ UNCHANGED <<build, specifier_table, ret, log, installs>>

\* One iteration of `while (*format)`: a literal byte.
Literal(c) ==
    /\ pc[c] = "run"
    /\ At(input.format, fpos[c]) # 0
    /\ At(input.format, fpos[c]) # CH_PCT
    /\ ctx'  = [ctx EXCEPT ![c] = fmt_state_putchar(@, At(input.format, fpos[c]))]
    /\ fpos' = [fpos EXCEPT ![c] = @ + 1]
    /\ log'  = [log EXCEPT ![c] = Append(@,
                  [kind |-> "literal", at |-> fpos[c], next |-> fpos[c] + 1,
                   h |-> "NULL", disp |-> ZeroState,
                   from |-> Len(ctx[c].put), va0 |-> va[c][ArgsCursor],
                   va1 |-> va[c][ArgsCursor], va2 |-> va[c][ArgsCursor]])]
    /\ UNCHANGED <<build, specifier_table, input, pc, va, st, ret, installs>>

\* Variant: the argument cursor is one object shared by the calls, not a
\* local of each.
Dispatched_shared_cursor(c, d, r) ==
    /\ ctx'  = [ctx EXCEPT ![c] = fmt_state_puts(@, r.emit)]
    /\ fpos' = [fpos EXCEPT ![c] = d.pos]
    /\ va'   = [b \in Calls |-> [va[b] EXCEPT ![ArgsCursor] = r.va]]
    /\ st'   = [st EXCEPT ![c] = r.st]
    /\ log'  = [log EXCEPT ![c] = Append(@,
                  [kind |-> "directive", at |-> fpos[c], next |-> d.pos,
                   h |-> r.called,
                   disp |-> d.st,
                   from |-> Len(ctx[c].put), va0 |-> va[c][ArgsCursor],
                   va1 |-> d.va, va2 |-> r.va])]
    /\ UNCHANGED <<build, specifier_table, input, pc, ret, installs>>

\* The end of the iteration: d is the directive as parsed, r what its
\* dispatch gave.
Dispatched(c, d, r) ==
    /\ ctx'  = [ctx EXCEPT ![c] = fmt_state_puts(@, r.emit)]
    /\ fpos' = [fpos EXCEPT ![c] = d.pos]
    /\ va'   = [va EXCEPT ![c][ArgsCursor] = r.va]
    /\ st'   = [st EXCEPT ![c] = r.st]
    /\ log'  = [log EXCEPT ![c] = Append(@,
                  [kind |-> "directive", at |-> fpos[c], next |-> d.pos,
                   h |-> r.called,
                   disp |-> d.st,
                   from |-> Len(ctx[c].put), va0 |-> va[c][ArgsCursor],
                   va1 |-> d.va, va2 |-> r.va])]
    /\ UNCHANGED <<build, specifier_table, input, pc, ret, installs>>

\* Variant: the flags and the width are not cleared at the start of a
\* directive, those the previous handler left are still there.
Parsed_keeps_state(c, d) ==
    Dispatched(c, [d EXCEPT !.st.flags = @ \cup st[c].flags,
                            !.st.width = IF @ = 0 THEN st[c].width ELSE @],
               Dispatch(specifier_table,
                        [d.st EXCEPT !.flags = @ \cup st[c].flags,
                                     !.width = IF @ = 0 THEN st[c].width ELSE @],
                        input.args, d.va, build))

\* The iteration once the directive d is parsed: evaluate specifier.
Parsed(c, d) ==
    Dispatched(c, d, Dispatch(specifier_table, d.st, input.args, d.va, build))

\* One iteration of `while (*format)`: a directive is parsed and dispatched.
Directive(c) ==
    /\ pc[c] = "run"
    /\ At(input.format, fpos[c]) = CH_PCT
    /\ Parsed(c, ParseDirective(input.format, fpos[c] + 1, input.args,
                                va[c][ArgsCursor], build))

\* The loop ends at the terminator; fmt_vfctprintf returns (int) _ctx.idx.
Return(c) ==
    /\ pc[c] = "run"
    /\ At(input.format, fpos[c]) = 0
    /\ pc'  = [pc EXCEPT ![c] = "done"]
    /\ ret' = [ret EXCEPT ![c] = ctx[c].idx]
    /\ UNCHANGED <<build, specifier_table, input, ctx, fpos, va, st, log, installs>>

\* `while (*format)` with the cursor beyond the terminator: the specifier
\* read was the terminator itself and `format++` stepped over it.  The byte
\* read is outside the format and the read is undefined: Return is the
\* outcome where a zero is read, this action is every other outcome.
PastEnd(c) ==
    /\ pc[c] = "run"
    /\ fpos[c] > Len(input.format) + 1
    /\ pc' = [pc EXCEPT ![c] = "abort"]
    /\ UNCHANGED <<build, specifier_table, input, ctx, fpos, va, st, ret, log, installs>>

(***************************************************************************)
(* The calls made of the library: formats with their variadic arguments.   *)
(* An argument is [t, i, s, d]: its C type after default promotion and its *)
(* value, in i for an integer or a pointer, s for a string, d for a double.*)
(***************************************************************************)
NoDbl == [cls |-> "fin", neg |-> FALSE, num |-> 0, den |-> 1]
ArgInt(v) == [t |-> "int", i |-> v, s |-> << >>, d |-> NoDbl]
ArgStr(str) == [t |-> "str", i |-> 0, s |-> str, d |-> NoDbl]
ArgPtr(v) == [t |-> "ptr", i |-> v, s |-> << >>, d |-> NoDbl]

\* An integer argument given as its two's-complement pattern on limbs.
ArgWide(limbs) == [t |-> "wide", i |-> 0, s |-> limbs, d |-> NoDbl]
ArgDbl(cls, neg, num, den) ==
    [t |-> "double", i |-> 0, s |-> << >>,
     d |-> [cls |-> cls, neg |-> neg, num |-> num, den |-> den]]

\* A piece of a format with the arguments its directive is passed.
Item(text, args) == [format |-> text, args |-> args]

RECURSIVE Join(_)
Join(items) ==
    IF items = << >> THEN Item(<< >>, << >>)
    ELSE LET rest == Join(Tail(items))
         IN  Item(Head(items).format \o rest.format, Head(items).args \o rest.args)

\* The formats made of at most n pieces.
FormatsOf(items, n) == {Join(q) : q \in UNION {[1..k -> items] : k \in 0..n}}

\* The longest format of the driver-level calls, in pieces.
MaxElems == 2

\* A byte with the top bit set: negative where char is signed.
BYTE_HIGH == 2^7

DriverItems ==
    { Item(Bytes(<<"a">>), << >>),
      Item(Bytes(<<"%", "%">>), << >>),
      Item(Bytes(<<"%", "5", "d">>), <<ArgInt(0 - 37)>>),
      Item(Bytes(<<"%", "*", ".", "*", "i">>), <<ArgInt(4), ArgInt(2), ArgInt(5)>>),
      Item(Bytes(<<"%", "#", "*", "x">>), <<ArgInt(0 - 5), ArgInt(255)>>),
      Item(Bytes(<<"%", "l", "u">>), <<ArgInt(7)>>),
      Item(Bytes(<<"%", "o">>), <<ArgInt(8)>>),
      Item(Bytes(<<"%", "b">>), <<ArgInt(5)>>),
      Item(Bytes(<<"%", "X">>), <<ArgInt(171)>>),
      Item(Bytes(<<"%", "3", "s">>), <<ArgStr(Bytes(<<"h", "i">>))>>),
      Item(Bytes(<<"%", "c">>), <<ArgInt(CH_Z)>>),
      Item(Bytes(<<"%", "p">>), <<ArgPtr(31)>>),
      Item(Bytes(<<"%", ".", "1", "f">>), <<ArgDbl("fin", FALSE, 5, 2)>>),
      Item(Bytes(<<"%", "F">>), <<ArgDbl("nan", FALSE, 0, 1)>>),
      Item(Bytes(<<"%", "e">>), <<ArgDbl("fin", FALSE, 3, 2)>>),
      Item(Bytes(<<"%", "E">>), <<ArgDbl("fin", TRUE, 3, 2)>>),
      Item(Bytes(<<"%", "g">>), <<ArgDbl("fin", FALSE, 0, 1)>>),
      Item(Bytes(<<"%", "G">>), <<ArgDbl("inf", TRUE, 0, 1)>>),
      Item(Bytes(<<"%", "Q">>), << >>),
      Item(Bytes(<<"%", "*", "Q">>), <<ArgInt(3)>>),
      Item(Bytes(<<"%", "l", "5">>), << >>),
      Item(<<CH_PCT, BYTE_HIGH>>, << >>),
      Item(<<CH_PCT, 7>>, << >>) }

DriverInputs == FormatsOf(DriverItems, MaxElems)

(***************************************************************************)
(* Driver-level specification: the same format and arguments are given to  *)
(* a call with a null sink and to a call with a collecting sink.           *)
(***************************************************************************)
\* The call with the null sink is made first, then the collecting one.
Next ==
    \/ \E c \in Calls : (\A d \in Calls : d < c => pc[d] = "done") /\ Call(c, DriverInputs)
    \/ \E c \in Calls : Literal(c)
    \/ \E c \in Calls : Directive(c)
    \/ \E c \in Calls : Return(c)

Spec == Init /\ [][Next]_vars

(***************************************************************************)
(* Properties of the driver-level specification.                           *)
(***************************************************************************)
Done(c) == pc[c] = "done"

\* The directives of call c so far, as indices into log[c].
Directives(c) == {k \in 1..Len(log[c]) : log[c][k].kind = "directive"}

\* The bytes put during iteration k of call c.
Segment(c, k) ==
    SubSeq(ctx[c].put, log[c][k].from + 1,
           IF k < Len(log[c]) THEN log[c][k + 1].from ELSE Len(ctx[c].put))

\* C1: the value a call returns is the number of bytes passed through
\* fmt_state_putchar during the call; the call with a null sink function
\* returns the same count as the call with a collecting sink given the same
\* format and arguments, which is the number of bytes the collecting sink
\* received.
C1_SameCount ==
    /\ \A c \in Calls : Done(c) => ret[c] = Len(ctx[c].put)
    /\ (Done(Discarding) /\ Done(Collecting)) =>
           /\ ret[Discarding] = ret[Collecting]
           /\ ret[Discarding] = Len(ctx[Collecting].sunk)

\* C1 witness: both calls have returned from a format with a directive, the
\* collecting sink holds bytes and the null sink received none.
C1_Witness ==
    /\ Done(Discarding) /\ Done(Collecting)
    /\ Directives(Collecting) # {}
    /\ Len(ctx[Collecting].sunk) > 1
    /\ ctx[Discarding].sunk = << >>
    /\ ret[Discarding] > 1

AllIn(seg, lo, hi, chars) == \A n \in lo..hi : seg[n] \in chars

IntegerFrames ==
    { << >>, <<CH_MINUS>>, <<CH_PLUS>>, <<CH_SPACE>>, <<CH_ZERO>>,
      <<CH_ZERO, CH_x>>, <<CH_ZERO, CH_X>>, <<CH_ZERO, CH_b>> }

DigitChars ==
    (CH_ZERO..CH_NINE) \cup (CH_a..CH_f) \cup (CH_A..CH_F)

\* spaces, then sign or base prefix, then zeros and digits, then spaces.
IntegerLayout(seg) ==
    \E i \in 0..Len(seg) : \E j \in i..Len(seg) : \E k \in j..Len(seg) :
        /\ AllIn(seg, 1, i, {CH_SPACE})
        /\ SubSeq(seg, i + 1, j) \in IntegerFrames
        /\ AllIn(seg, j + 1, k, DigitChars)
        /\ AllIn(seg, k + 1, Len(seg), {CH_SPACE})

\* C2: the collecting sink receives the bytes of the elements of the format in
\* source order: each iteration starts where the previous one ended in the
\* format and appends to the output; a literal byte passes through unchanged;
\* an integer directive is laid out as leading spaces, sign or prefix,
\* leading zeros, digits, trailing spaces.
C2_SourceOrder ==
    LET c == Collecting IN
    /\ ctx[c].sunk = ctx[c].put
    /\ \A k \in 1..Len(log[c]) :
        /\ log[c][k].at = (IF k = 1 THEN 1 ELSE log[c][k - 1].next)
        /\ log[c][k].at < log[c][k].next
        /\ log[c][k].from = (IF k = 1 THEN 0
                             ELSE log[c][k - 1].from + Len(Segment(c, k - 1)))
        /\ log[c][k].kind = "literal" =>
               Segment(c, k) = <<input.format[log[c][k].at]>>
        /\ log[c][k].h \in {"conv_sint", "conv_uint"} =>
               IntegerLayout(Segment(c, k))
    /\ (\A n \in 1..(fpos[c] - 1) : input.format[n] # CH_PCT) =>
           ctx[c].sunk = SubSeq(input.format, 1, fpos[c] - 1)

\* C2 witness: the collecting call has returned from a format of a literal
\* and an integer directive whose output has leading spaces and a sign.
C2_Witness ==
    LET c == Collecting IN
    /\ Done(c)
    /\ \E k \in 1..Len(log[c]) : log[c][k].kind = "literal"
    /\ \E k \in Directives(c) :
           /\ log[c][k].h = "conv_sint"
           /\ Len(Segment(c, k)) > 3
           /\ Segment(c, k)[1] = CH_SPACE
           /\ \E n \in 1..Len(Segment(c, k)) : Segment(c, k)[n] = CH_MINUS

\* The `*` of the width and of the precision in the directive at log[c][k].
StarWidth(c, k) ==
    \E n \in (log[c][k].at + 1)..(log[c][k].next - 1) :
        input.format[n] = CH_STAR /\ input.format[n - 1] # CH_DOT

StarPrecision(c, k) ==
    \E n \in (log[c][k].at + 1)..(log[c][k].next - 1) :
        input.format[n] = CH_STAR /\ input.format[n - 1] = CH_DOT

\* The type of the value a specifier pops, "none" if it pops nothing.
PoppedType(specifier) ==
    CASE specifier \in {CH_d, CH_i, CH_u, CH_x, CH_X, CH_o, CH_b, CH_c} -> "int"
      [] specifier = CH_s -> "str"
      [] specifier = CH_p -> "ptr"
      [] specifier \in {CH_f, CH_F, CH_e, CH_E, CH_g, CH_G} -> "double"
      [] OTHER -> "none"

Abs(n) == IF n < 0 THEN 0 - n ELSE n

\* C3: arguments are consumed left to right in the order of the directives;
\* within a directive a `*` width is read before a `*` precision, and both
\* before the value; d i u x X o b c s p f F e E g G pop exactly one value,
\* %% and an unknown specifier pop none.
C3_ArgumentOrder ==
    \A c \in Calls : \A k \in 1..Len(log[c]) :
        LET e  == log[c][k]
            sw == IF e.kind = "directive" /\ StarWidth(c, k) THEN 1 ELSE 0
            sp == IF e.kind = "directive" /\ StarPrecision(c, k) THEN 1 ELSE 0
        IN  /\ e.va0 = (IF k = 1 THEN 1 ELSE log[c][k - 1].va2)
            /\ e.va1 = e.va0 + sw + sp
            /\ e.va2 = e.va1 + (IF e.kind = "directive"
                                   /\ PoppedType(e.disp.specifier) # "none"
                                THEN 1 ELSE 0)
            /\ sw = 1 => /\ input.args[e.va0].t = "int"
                         /\ e.disp.width = Abs(input.args[e.va0].i)
            /\ sp = 1 => /\ input.args[e.va0 + sw].t = "int"
                         /\ e.disp.precision = Max(input.args[e.va0 + sw].i, 0)
            /\ e.va2 > e.va1 =>
                   input.args[e.va1].t = PoppedType(e.disp.specifier)

\* C3 witness: a call has returned from a format whose first directive took
\* its width and its precision from the arguments and whose second directive
\* popped a value.
C3_Witness ==
    \E c \in Calls :
        /\ Done(c)
        /\ Len(log[c]) = 2
        /\ StarWidth(c, 1) /\ StarPrecision(c, 1)
        /\ log[c][1].va2 = log[c][1].va0 + 3
        /\ log[c][2].va2 = log[c][2].va0 + 1
        /\ va[c][ArgsCursor] = Len(input.args) + 1

\* The bytes _vfctprintf puts for the format f from position i on, with the
\* arguments from cursor v on.
RECURSIVE Rendered(_, _, _, _)
Rendered(f, args, i, v) ==
    IF At(f, i) = 0 THEN << >>
    ELSE IF f[i] # CH_PCT THEN <<f[i]>> \o Rendered(f, args, i + 1, v)
    ELSE LET d == ParseDirective(f, i + 1, args, v, build)
             r == Dispatch(specifier_table, d.st, args, d.va, build)
         IN  r.emit \o Rendered(f, args, d.pos, r.va)

\* The specifier byte of the directive at log[c][k], as written in the format.
SpecifierByte(c, k) == input.format[log[c][k].next - 1]

\* No handler for byte b: outside the table range or in a null slot.
NoHandler(b) == b >= TABLE_LEN \/ specifier_table[b] = "NULL"

DiagnosticOpen ==
    Bytes(<<"%", "!", "(", "u", "n", "k", "n", "o", "w", "n", " ",
            "s", "p", "e", "c", "i", "f", "i", "e", "r", "=">>) \o <<CH_QUOTE>>

DiagnosticClose == <<CH_QUOTE, CH_RPAREN>>

\* C6: a directive whose specifier byte has no handler (null slot, or byte
\* outside the table range) emits the diagnostic %!(unknown specifier='...')
\* through the sink, advances idx by its length, invokes no handler and pops
\* no value, and parsing continues with the byte after the specifier: the
\* other elements are rendered as if the directive (with the arguments of its
\* `*` width and precision) were absent.
C6_UnknownSpecifier ==
    \A c \in Calls :
        /\ ctx[c].idx = Len(ctx[c].put)
        /\ \A k \in Directives(c) :
            LET e   == log[c][k]
                seg == Segment(c, k)
                n   == Len(seg)
            IN  /\ (e.h = "NULL") <=> NoHandler(SpecifierByte(c, k))
                /\ e.h = "NULL" =>
                    /\ n > Len(DiagnosticOpen) + Len(DiagnosticClose)
                    /\ SubSeq(seg, 1, Len(DiagnosticOpen)) = DiagnosticOpen
                    /\ SubSeq(seg, n - 1, n) = DiagnosticClose
                    /\ e.va2 = e.va1
                    /\ e.disp.specifier = SpecifierByte(c, k)
                    /\ k < Len(log[c]) => log[c][k + 1].at = e.next
                    /\ Done(c) =>
                           SubSeq(ctx[c].put, 1, e.from)
                               \o SubSeq(ctx[c].put, e.from + n + 1, Len(ctx[c].put))
                           = Rendered(SubSeq(input.format, 1, e.at - 1)
                                          \o SubSeq(input.format, e.next,
                                                    Len(input.format)),
                                      SubSeq(input.args, 1, e.va0 - 1)
                                          \o SubSeq(input.args, e.va1,
                                                    Len(input.args)),
                                      1, 1)

\* C6 witness: the collecting call has returned from a format whose first
\* directive has a specifier byte outside the table range and whose second
\* directive was converted by a handler from an argument.
C6_Witness ==
    LET c == Collecting IN
    /\ Done(c)
    /\ Len(log[c]) = 2
    /\ log[c][1].kind = "directive" /\ log[c][1].h = "NULL"
    /\ SpecifierByte(c, 1) >= TABLE_LEN
    /\ log[c][2].kind = "directive" /\ log[c][2].h # "NULL"
    /\ log[c][2].va2 > log[c][2].va1
    /\ ret[c] > Len(Segment(c, 1))

HexDigits(upper) ==
    Bytes(<<"0", "1", "2", "3", "4", "5", "6", "7", "8", "9">>)
    \o (IF upper THEN Bytes(<<"A", "B", "C", "D", "E", "F">>)
        ELSE Bytes(<<"a", "b", "c", "d", "e", "f">>))

\* The byte b as the diagnostic is to display it: itself if printable ASCII,
\* else a backslash, x and its two hexadecimal digits.
Displayed(b, upper) ==
    IF CH_SPACE <= b /\ b <= CH_TILDE THEN <<b>>
    ELSE <<CH_BSLASH, CH_x, HexDigits(upper)[(b \div 16) + 1],
           HexDigits(upper)[(b % 16) + 1]>>

\* C7: in the unknown-specifier diagnostic the offending byte is displayed
\* between single quotes as the printable ASCII character itself or, for a
\* byte outside printable ASCII, as \xHH with HH the two ASCII hexadecimal
\* digits of the byte value.
C7_QuotedByte ==
    \A k \in Directives(Collecting) :
        log[Collecting][k].h = "NULL" =>
            \E upper \in BOOLEAN :
                Segment(Collecting, k) =
                    DiagnosticOpen \o Displayed(SpecifierByte(Collecting, k), upper)
                                   \o DiagnosticClose

\* C10: fmt_vfctprintf works on a copy of the argument cursor: the caller's
\* va_list is in the state it had before the call, during the call and after
\* it has returned, however many arguments the format consumed.
C10_CallerCursorKept ==
    \A c \in Calls : va[c].caller = 1

\* C10 witness: a call has returned after consuming three arguments through
\* its copy of the cursor.
C10_Witness ==
    \E c \in Calls :
        /\ Done(c)
        /\ va[c].save > 3
        /\ va[c].save = Len(input.args) + 1
        /\ va[c].caller = 1

(***************************************************************************)
(* Conversion-level specification: one call with a collecting sink, its    *)
(* format a single directive %[flags][width][.precision]specifier.         *)
(***************************************************************************)
FlagChars == <<CH_MINUS, CH_ZERO, CH_PLUS, CH_SPACE, CH_HASH>>

FlagText(chosen) == SelectSeq(FlagChars, LAMBDA ch : ch \in chosen)

ConvFlags == {FlagText(chosen) :
                 chosen \in SUBSET {CH_MINUS, CH_ZERO, CH_PLUS, CH_SPACE, CH_HASH}}

ConvWidths == {<< >>, Bytes(<<"1">>), Bytes(<<"6">>)}

ConvPrecisions == {<< >>, Bytes(<<".", "0">>), Bytes(<<".", "2">>)}

\* The specifier with the argument passed for it.
ConvValues ==
    { Item(<<CH_d>>, <<ArgInt(0)>>),
      Item(<<CH_d>>, <<ArgInt(5)>>),
      Item(<<CH_d>>, <<ArgInt(0 - 37)>>),
      Item(<<CH_d>>, <<ArgInt(12345678)>>),
      Item(<<CH_i>>, <<ArgInt(0)>>),
      Item(<<CH_i>>, <<ArgInt(0 - 1)>>),
      Item(<<CH_u>>, <<ArgInt(0)>>),
      Item(<<CH_u>>, <<ArgInt(7)>>),
      Item(<<CH_x>>, <<ArgInt(0)>>),
      Item(<<CH_x>>, <<ArgInt(255)>>),
      Item(<<CH_X>>, <<ArgInt(0)>>),
      Item(<<CH_X>>, <<ArgInt(171)>>),
      Item(<<CH_o>>, <<ArgInt(0)>>),
      Item(<<CH_o>>, <<ArgInt(8)>>),
      Item(<<CH_b>>, <<ArgInt(0)>>),
      Item(<<CH_b>>, <<ArgInt(5)>>),
      Item(<<CH_c>>, <<ArgInt(CH_Z)>>),
      Item(<<CH_s>>, <<ArgStr(<< >>)>>),
      Item(<<CH_s>>, <<ArgStr(Bytes(<<"h", "i">>))>>),
      Item(<<CH_s>>, <<ArgStr(Bytes(<<"o", "v", "e", "r", "l", "o", "n", "g">>))>>),
      Item(<<CH_f>>, <<ArgDbl("fin", FALSE, 0, 1)>>),
      Item(<<CH_f>>, <<ArgDbl("fin", FALSE, 5, 2)>>),
      Item(<<CH_f>>, <<ArgDbl("fin", TRUE, 3, 2)>>),
      Item(<<CH_f>>, <<ArgDbl("fin", FALSE, 1234567, 1)>>),
      Item(<<CH_f>>, <<ArgDbl("nan", FALSE, 0, 1)>>),
      Item(<<CH_f>>, <<ArgDbl("inf", FALSE, 0, 1)>>),
      Item(<<CH_f>>, <<ArgDbl("inf", TRUE, 0, 1)>>),
      Item(<<CH_e>>, <<ArgDbl("fin", FALSE, 0, 1)>>),
      Item(<<CH_e>>, <<ArgDbl("fin", FALSE, 3, 2)>>),
      Item(<<CH_e>>, <<ArgDbl("nan", FALSE, 0, 1)>>),
      Item(<<CH_e>>, <<ArgDbl("inf", TRUE, 0, 1)>>),
      Item(<<CH_g>>, <<ArgDbl("fin", FALSE, 0, 1)>>),
      Item(<<CH_g>>, <<ArgDbl("fin", TRUE, 5, 2)>>),
      Item(<<CH_g>>, <<ArgDbl("nan", FALSE, 0, 1)>>),
      Item(<<CH_g>>, <<ArgDbl("inf", FALSE, 0, 1)>>) }

ConvInputs ==
    { Item(<<CH_PCT>> \o fl \o w \o p \o v.format, v.args) :
          fl \in ConvFlags, w \in ConvWidths, p \in ConvPrecisions, v \in ConvValues }

NextConv ==
    \/ Call(Collecting, ConvInputs)
    \/ Directive(Collecting)
    \/ Return(Collecting)

SpecConv == Init /\ [][NextConv]_vars

(***************************************************************************)
(* Properties of the conversion-level specification.                       *)
(***************************************************************************)
\* The directive of the conversion-level call, once dispatched.
Conv == log[Collecting][1]

Converted == Done(Collecting) /\ Len(log[Collecting]) = 1

\* The bytes the directive emits when written without a width.
Content ==
    Dispatch(specifier_table, [Conv.disp EXCEPT !.width = 0], input.args,
             Conv.va1, build).emit

WidthSpecifiers ==
    {CH_d, CH_i, CH_u, CH_x, CH_X, CH_o, CH_b, CH_c, CH_s, CH_f, CH_e, CH_g}

\* C4: when the content of a directive d i u x X o b c s f e g is N bytes
\* and its width W is greater than N, exactly W bytes are emitted for it,
\* whatever the flags and the value; zero, NaN and the infinities included.
C4_WidthHonoured ==
    (Converted /\ Conv.disp.specifier \in WidthSpecifiers
               /\ Len(Content) < Conv.disp.width) =>
        Len(ctx[Collecting].sunk) = Conv.disp.width

\* The bytes the directive emits when written with the `-` flag added.
LeftJustified ==
    Dispatch(specifier_table, [Conv.disp EXCEPT !.flags = @ \cup {"LEFT"}],
             input.args, Conv.va1, build).emit

\* C5: for a directive without the `0` flag, adding the `-` flag gives output
\* of the same length with the padding on the right instead of the left and
\* the same content bytes; the integer value zero included.
C5_LeftRightDual ==
    (Converted /\ Conv.disp.flags \cap {"ZEROPAD", "LEFT"} = {}) =>
        /\ Len(LeftJustified) = Len(ctx[Collecting].sunk)
        /\ \E n \in 0..Len(LeftJustified) :
               \E body \in {SubSeq(LeftJustified, 1, Len(LeftJustified) - n)} :
                   /\ LeftJustified = body \o Rep(CH_SPACE, n)
                   /\ ctx[Collecting].sunk = Rep(CH_SPACE, n) \o body

(***************************************************************************)
(* Installation-level specification: the program installs handlers, then   *)
(* makes a call with a collecting sink.                                    *)
(***************************************************************************)
\* DEL, the first byte above the printable range.
BYTE_DEL == CH_TILDE + 1

\* The keys fmt_install is called with.
InstallChars == {CH_Q, CH_d, CH_TILDE, CH_ZERO + 5, CH_SPACE, BYTE_DEL, BYTE_HIGH}

InstallArgs == <<ArgInt(7), ArgInt(42), ArgInt(13)>>

InstallInputs ==
    { Item(text, InstallArgs) :
          text \in { Bytes(<<"%", "Q">>),
                     Bytes(<<"%", "d">>),
                     Bytes(<<"%", "~">>),
                     Bytes(<<"%", "Q", "%", "Q">>),
                     Bytes(<<"%", "Q", "%", "d">>),
                     Bytes(<<"%", "d", "%", "Q">>),
                     Bytes(<<"a", "%", "Q", "b">>),
                     Bytes(<<"%", "5", "Q">>),
                     Bytes(<<"%", "l", "5">>),
                     <<CH_PCT, CH_SPACE, BYTE_DEL>>,
                     <<CH_PCT, BYTE_HIGH>> } }

NextInstall ==
    \/ \E character \in InstallChars : \E fn \in CustomHandlers :
           Install(character, fn)
    \/ Call(Collecting, InstallInputs)
    \/ Literal(Collecting)
    \/ Directive(Collecting)
    \/ Return(Collecting)

SpecInstall == Init /\ [][NextInstall]_vars

(***************************************************************************)
(* Properties of the installation-level specification.                     *)
(***************************************************************************)
\* The admissible keys: 0x21..0x7E without the digits.
Admissible(b) == 33 <= b /\ b <= 126 /\ ~(48 <= b /\ b <= 57)

\* The calls of fmt_install made with key b, as indices into installs.
InstallsOf(b) == {n \in 1..Len(installs) : installs[n].character = b}

\* The handler most recently installed for key b.
LastInstalled(b) ==
    installs[CHOOSE n \in InstallsOf(b) : \A m \in InstallsOf(b) : m <= n].fn

\* C8: after any sequence of fmt_install calls, a call with a key outside the
\* admissible set (byte <= 0x20, byte >= 0x7F, or a digit) has left every slot
\* unchanged and a call with an admissible key has changed only the slot of
\* its key; the slots of the inadmissible bytes are still null, and such
\* specifier bytes yield the unknown-specifier diagnostic.
C8_InstallFrame ==
    /\ \A b \in 0..(TABLE_LEN - 1) :
           specifier_table[b] =
               IF Admissible(b) /\ InstallsOf(b) # {} THEN LastInstalled(b)
               ELSE BuiltinTable[b]
    /\ \A b \in 0..(TABLE_LEN - 1) : ~Admissible(b) => specifier_table[b] = "NULL"
    /\ \A k \in Directives(Collecting) :
           ~Admissible(SpecifierByte(Collecting, k)) =>
               /\ log[Collecting][k].h = "NULL"
               /\ SubSeq(Segment(Collecting, k), 1, Len(DiagnosticOpen)) = DiagnosticOpen

\* C8 witness: fmt_install has been called with a digit and with an
\* admissible key, and a later directive with the digit as its specifier has
\* been rendered.
C8_Witness ==
    /\ Done(Collecting)
    /\ Len(installs) = 2
    /\ \E n \in 1..2 : installs[n].character = CH_ZERO + 5
    /\ \E n \in 1..2 : Admissible(installs[n].character)
    /\ \E k \in Directives(Collecting) : SpecifierByte(Collecting, k) = CH_ZERO + 5

\* The bytes the installed handlers emit: "hA" the constant, "hB" the letter
\* B and the last decimal digit of the int under the cursor.
EmittedBy(fn, cursor) ==
    IF fn = "hA" THEN <<60, 65, 62>>
    ELSE <<66, 48 + (Abs(input.args[cursor].i) % 10)>>

\* C9: after fmt_install(c, h) with an admissible key c that is not a parsing
\* byte, every later directive %c invokes h exactly once, the most recently
\* installed handler winning, also over a built-in handler, and what h emits
\* appears in the output at the position of the directive.
C9_CustomRoundtrip ==
    \A k \in Directives(Collecting) :
        LET b == SpecifierByte(Collecting, k)
            e == log[Collecting][k]
        IN  (Admissible(b) /\ InstallsOf(b) # {}) =>
                /\ e.h = LastInstalled(b)
                /\ Segment(Collecting, k) = EmittedBy(LastInstalled(b), e.va1)
                /\ e.from = Len(Rendered(SubSeq(input.format, 1, e.at - 1),
                                         input.args, 1, 1))
                /\ e.va2 = e.va1 + (IF LastInstalled(b) = "hB" THEN 1 ELSE 0)

\* C9 witness: two handlers were installed in turn for d, which has a
\* built-in handler, and the call has returned from a format with %d and %Q.
C9_Witness ==
    /\ Done(Collecting)
    /\ Len(installs) = 2
    /\ installs[1].character = CH_d /\ installs[2].character = CH_d
    /\ installs[1].fn # installs[2].fn
    /\ Cardinality(Directives(Collecting)) = 2
    /\ \E k \in Directives(Collecting) : SpecifierByte(Collecting, k) = CH_d

(***************************************************************************)
(* Re-entry: a handler of the caller that calls fmt_state_printf.          *)
(***************************************************************************)
CH_N == Ord("N")

\* The handler the caller installs for N: it pops one int v and calls
\* fmt_state_printf(state, "[%3d]", v).
ReentrantHandler == "hN"

SubFormat == Bytes(<<"[", "%", "3", "d", "]">>)

\* One iteration of the loop of _vfctprintf on ctx, once the directive d is
\* dispatched with result r; then the rest of the format.
RECURSIVE _vfctprintf(_, _, _, _, _, _, _)
VfDispatched(context, table, f, args, d, r, bld) ==
    _vfctprintf(fmt_state_puts(context, r.emit), table, f, args, d.pos, r.va, bld)

VfParsed(context, table, f, args, d, bld) ==
    VfDispatched(context, table, f, args, d, Dispatch(table, d.st, args, d.va, bld), bld)

\* _vfctprintf(ctx, format, va_save) from format position i and cursor v on:
\* the context when the loop ends.
_vfctprintf(context, table, f, args, i, v, bld) ==
    IF At(f, i) = 0 THEN context
    ELSE IF At(f, i) # CH_PCT
    THEN _vfctprintf(fmt_state_putchar(context, At(f, i)), table, f, args, i + 1, v, bld)
    ELSE VfParsed(context, table, f, args, ParseDirective(f, i + 1, args, v, bld), bld)

\* Variant: the nested run is given a context of its own, as a top-level
\* call is (.idx = 0).
fmt_state_vprintf_own_idx(context, table, format, args, bld) ==
    _vfctprintf([context EXCEPT !.idx = 0], table, format, args, 1, 1, bld)

\* fmt_state_vprintf(state, format, va): the context state->context after it.
fmt_state_vprintf(context, table, format, args, bld) ==
    _vfctprintf(context, table, format, args, 1, 1, bld)

\* The handler for the specifier of the directive d is the re-entering one.
Reenters(d) == Lookup(specifier_table, d.st.specifier, build) = ReentrantHandler

\* The directive d is dispatched to the re-entering handler: the handler pops
\* its int from the parent's cursor and runs the sub-format on state->ctx.
Reentered(c, d) ==
    /\ Reenters(d)
    /\ ctx'  = [ctx EXCEPT ![c] =
                  fmt_state_vprintf(@, specifier_table, SubFormat,
                                    <<ArgInt(va_arg(input.args, d.va))>>, build)]
    /\ fpos' = [fpos EXCEPT ![c] = d.pos]
    /\ va'   = [va EXCEPT ![c][ArgsCursor] = d.va + 1]
    /\ st'   = [st EXCEPT ![c] = d.st]
    /\ log'  = [log EXCEPT ![c] = Append(@,
                  [kind |-> "directive", at |-> fpos[c], next |-> d.pos,
                   h |-> ReentrantHandler, disp |-> d.st,
                   from |-> Len(ctx[c].put), va0 |-> va[c][ArgsCursor],
                   va1 |-> d.va, va2 |-> d.va + 1])]
    /\ UNCHANGED <<build, specifier_table, input, pc, ret, installs>>

\* One iteration of `while (*format)`: a directive whose handler re-enters.
Reentrant(c) ==
    /\ pc[c] = "run"
    /\ At(input.format, fpos[c]) = CH_PCT
    /\ Reentered(c, ParseDirective(input.format, fpos[c] + 1, input.args,
                                   va[c][ArgsCursor], build))

\* A directive whose handler does not re-enter.
Plain(c) ==
    /\ pc[c] = "run"
    /\ ~Reenters(ParseDirective(input.format, fpos[c] + 1, input.args,
                                va[c][ArgsCursor], build))
    /\ Directive(c)

\* Every argument is an int: while N has no handler its directive pops
\* nothing, and the following directive is given its argument.
NestItems ==
    { Item(Bytes(<<"a", "b">>), << >>),
      Item(Bytes(<<"%", "N">>), <<ArgInt(42)>>),
      Item(Bytes(<<"%", "-", "*", ".", "2", "l", "N">>), <<ArgInt(6), ArgInt(0 - 7)>>),
      Item(Bytes(<<"%", "5", "d">>), <<ArgInt(0 - 37)>>),
      Item(Bytes(<<"%", "c">>), <<ArgInt(CH_Z)>>),
      Item(Bytes(<<"%", "Q">>), << >>) }

NestInputs == FormatsOf(NestItems, MaxElems + 1)

NextNest ==
    \/ Install(CH_N, ReentrantHandler)
    \/ Call(Collecting, NestInputs)
    \/ Literal(Collecting)
    \/ Plain(Collecting)
    \/ Reentrant(Collecting)
    \/ Return(Collecting)

SpecNest == Init /\ [][NextNest]_vars

\* The directives of call c that were dispatched to the re-entering handler.
Nested(c) == {k \in Directives(c) : log[c][k].h = ReentrantHandler}

\* C11: a nested run writes through the same context and a State of its own.
\* The count never restarts: at every point the count equals the number of
\* bytes put since the start of the outermost call, so the length after a
\* nested run is the length before it plus the bytes of the sub-format, the
\* sink receives those bytes after the earlier ones, and the call returns
\* the total.  The parent's State is as parsed (not the State of the
\* sub-format's directive) and the parent's cursor moved only by the
\* handler's own pop.
C11_NestedRun ==
    /\ ctx[Collecting].idx = Len(ctx[Collecting].put)
    /\ ctx[Collecting].sunk = ctx[Collecting].put
    /\ Done(Collecting) => ret[Collecting] = Len(ctx[Collecting].sunk)
    /\ \A k \in Nested(Collecting) :
          /\ Segment(Collecting, k) =
                Rendered(SubFormat,
                         <<ArgInt(va_arg(input.args, log[Collecting][k].va1))>>, 1, 1)
          /\ log[Collecting][k].va2 = log[Collecting][k].va1 + 1
          /\ (k = Len(log[Collecting])) => st[Collecting] = log[Collecting][k].disp

C11_Witness ==
    /\ Done(Collecting)
    /\ \E k \in Nested(Collecting) :
          /\ k = Len(log[Collecting]) /\ k > 1
          /\ log[Collecting][k].from > 0
          /\ log[Collecting][k].disp.width = 6
          /\ "LEFT" \in log[Collecting][k].disp.flags
          /\ Segment(Collecting, k) = Bytes(<<"[", " ", "-", "7", "]">>)
          /\ ret[Collecting] = log[Collecting][k].from + 5

(***************************************************************************)
(* Parallel top-level calls: the steps of the calls interleave freely, each *)
(* call on a collecting sink of its own, and fmt_install is not called.     *)
(***************************************************************************)

\* fmt_vfctprintf(fct, arg, format, va) up to the call of _vfctprintf, while
\* other calls may be running; fct collects into the call's own buffer.
Parallel(c, inputs) ==
    /\ pc[c] = "idle"
    /\ IF input.chosen THEN UNCHANGED input
       ELSE \E in \in inputs :
                input' = [format |-> in.format, args |-> in.args, chosen |-> TRUE]
    /\ pc'   = [pc EXCEPT ![c] = "run"]
    /\ ctx'  = [ctx EXCEPT ![c] = [fct |-> Sink(Collecting), idx |-> 0,
                                   sunk |-> << >>, put |-> << >>]]
    /\ fpos' = [fpos EXCEPT ![c] = 1]
    /\ va'   = [va EXCEPT ![c] = [caller |-> @.caller, save |-> @.caller]]
    /\ st'   = [st EXCEPT ![c] = ZeroState]
    /\ UNCHANGED <<build, specifier_table, ret, log, installs>>

ParItems ==
    { Item(Bytes(<<"a">>), << >>),
      Item(Bytes(<<"%", "-", "4", "d">>), <<ArgInt(0 - 37)>>),
      Item(Bytes(<<"%", "*", "x">>), <<ArgInt(3), ArgInt(255)>>),
      Item(Bytes(<<"%", "s">>), <<ArgStr(Bytes(<<"h", "i">>))>>),
      Item(Bytes(<<"%", ".", "1", "f">>), <<ArgDbl("fin", FALSE, 5, 2)>>),
      Item(Bytes(<<"%", "Q">>), << >>) }

ParInputs == FormatsOf(ParItems, MaxElems + 1)

NextPar ==
    \/ \E c \in Calls : Parallel(c, ParInputs)
    \/ \E c \in Calls : Literal(c)
    \/ \E c \in Calls : Directive(c)
    \/ \E c \in Calls : Return(c)

SpecPar == Init /\ [][NextPar]_vars

\* What the call delivers when it runs alone.
Alone == Rendered(input.format, input.args, 1, 1)

\* C12: whatever the interleaving of the steps of the calls, the table is
\* as it was, what a call has delivered to its sink so far is the beginning
\* of what it delivers when it runs alone, and a call that has returned has
\* delivered exactly that and returned its length.
C12_NoInterference ==
    /\ specifier_table = BuiltinTable
    /\ \A c \in Calls :
          /\ Len(ctx[c].sunk) <= Len(Alone)
          /\ ctx[c].sunk = SubSeq(Alone, 1, Len(ctx[c].sunk))
          /\ Done(c) => (ctx[c].sunk = Alone /\ ret[c] = Len(Alone))

C12_Witness ==
    /\ pc[Discarding] = "run" /\ pc[Collecting] = "run"
    /\ Len(log[Discarding]) = 1 /\ Len(log[Collecting]) = 2
    /\ va[Discarding].save > 1
    /\ va[Collecting].save > va[Discarding].save
    /\ Len(ctx[Collecting].sunk) > Len(ctx[Discarding].sunk)
    /\ Len(ctx[Discarding].sunk) > 0
    /\ Len(Alone) > Len(ctx[Collecting].sunk)

(***************************************************************************)
(* Directives with wildcard fields.  A `*` width whose argument is INT_MIN  *)
(* makes the driver evaluate -w, which overflows int: the behaviour is      *)
(* undefined, and what happens is the build's choice.                       *)
(***************************************************************************)
INT_MIN == (0 - 2^30) - 2^30

\* The directive after the '%' at position i - 1 has a `*` width (fl: its
\* flags as read) and the argument under the cursor is INT_MIN.
MinWidthAfter(f, fl, args, v) ==
    At(f, fl.pos) = CH_STAR /\ va_arg(args, v) = INT_MIN

MinWidth(f, i, args, v) == MinWidthAfter(f, EvalFlags(f, i, {}), args, v)

\* What a build does on the overflow of -w: the negation traps (the process
\* is aborted), or it wraps and the width is 2^31 with LEFT set.
Overflows == {"abort", "wraps"}

\* One iteration of `while (*format)`: the directive evaluates -INT_MIN.  A
\* call that aborted has pc "abort"; a call whose width is 2^31 has pc
\* "wraps" and is not followed further (its directive emits 2^31 bytes).
Negate(c) ==
    /\ pc[c] = "run"
    /\ At(input.format, fpos[c]) = CH_PCT
    /\ MinWidth(input.format, fpos[c] + 1, input.args, va[c][ArgsCursor])
    /\ \E outcome \in Overflows : pc' = [pc EXCEPT ![c] = outcome]
    /\ va' = [va EXCEPT ![c][ArgsCursor] = @ + 1]
    /\ UNCHANGED <<build, specifier_table, input, ctx, fpos, st, ret, log, installs>>

\* A directive that evaluates no -INT_MIN.
Defined(c) ==
    /\ pc[c] = "run"
    /\ ~MinWidth(input.format, fpos[c] + 1, input.args, va[c][ArgsCursor])
    /\ Directive(c)

StarFlags == {<< >>, <<CH_MINUS>>, <<CH_ZERO>>}

\* A width or precision field with the argument its `*` is passed.
StarWidths ==
    { Item(<< >>, << >>), Item(Bytes(<<"5">>), << >>) }
    \cup { Item(<<CH_STAR>>, <<ArgInt(w)>>) : w \in {0 - 6, 0, 4, INT_MIN} }

StarPrecisions ==
    { Item(<< >>, << >>), Item(<<CH_DOT>>, << >>),
      Item(Bytes(<<".", "0">>), << >>), Item(Bytes(<<".", "2">>), << >>) }
    \cup { Item(<<CH_DOT, CH_STAR>>, <<ArgInt(p)>>) : p \in {0 - 3, 0, 2} }

StarValues ==
    { Item(<<CH_s>>, <<ArgStr(str)>>) :
          str \in { << >>, Bytes(<<"a">>), Bytes(<<"a", "b">>),
                    Bytes(<<"a", "b", "c">>), Bytes(<<"a", "b", "c", "d", "e", "f", "g">>) } }
    \cup { Item(<<CH_d>>, <<ArgInt(v)>>) : v \in {0, 5, 0 - 37} }

StarItems ==
    { Item(<<CH_PCT>> \o fl \o w.format \o p.format \o v.format,
           w.args \o p.args \o v.args) :
          fl \in StarFlags, w \in StarWidths, p \in StarPrecisions, v \in StarValues }

\* Formats of one directive, and of one directive after the literal byte a.
StarInputs ==
    StarItems \cup { Item(<<CH_a>> \o in.format, in.args) : in \in StarItems }

NextStar ==
    \/ Call(Collecting, StarInputs)
    \/ Literal(Collecting)
    \/ Defined(Collecting)
    \/ Negate(Collecting)
    \/ Return(Collecting)

SpecStar == Init /\ [][NextStar]_vars

Min(a, b) == IF a < b THEN a ELSE b

\* The string passed to the directive at log[c][k].
StringOf(c, k) == va_arg(input.args, log[c][k].va1)

\* The bytes of the string the directive at log[c][k] may take.
Taken(c, k) ==
    SubSeq(StringOf(c, k), 1, Min(Len(StringOf(c, k)), log[c][k].disp.precision))

\* C13: a %s directive with a precision emits the first min(strlen(s),
\* precision) bytes of the string and no more, and pads with spaces up to
\* the width from that capped length: on the right with the - flag, on the
\* left without it.
C13_StringPrecision ==
    \A k \in Directives(Collecting) :
        (log[Collecting][k].disp.specifier = CH_s
         /\ "PRECISION" \in log[Collecting][k].disp.flags) =>
            Segment(Collecting, k) =
                IF "LEFT" \in log[Collecting][k].disp.flags
                THEN Taken(Collecting, k)
                     \o Rep(CH_SPACE, log[Collecting][k].disp.width
                                      - Len(Taken(Collecting, k)))
                ELSE Rep(CH_SPACE, log[Collecting][k].disp.width
                                   - Len(Taken(Collecting, k)))
                     \o Taken(Collecting, k)

\* A string of 7 bytes with width 5 and precision 2: two bytes after three
\* spaces; and a `*` precision of -3 that takes nothing.
C13_Witness ==
    /\ Done(Collecting)
    /\ \E k \in Directives(Collecting) :
          /\ log[Collecting][k].disp.specifier = CH_s
          /\ StarPrecision(Collecting, k)
          /\ va_arg(input.args, log[Collecting][k].va1 - 1) < 0
          /\ Len(StringOf(Collecting, k)) = 7
          /\ log[Collecting][k].disp.width = 5
          /\ Segment(Collecting, k) = Rep(CH_SPACE, 5)

\* The int a `*` width of the directive at log[c][k] pops, and the int its
\* `*` precision pops.
WidthArg(c, k) == va_arg(input.args, log[c][k].va0)

PrecisionArg(c, k) == va_arg(input.args, log[c][k].va1 - 1)

\* The `*` fields of the directives carried out are as the claim says.
WildcardsRead ==
    \A k \in Directives(Collecting) :
        /\ log[Collecting][k].va1 =
              log[Collecting][k].va0
              + (IF StarWidth(Collecting, k) THEN 1 ELSE 0)
              + (IF StarPrecision(Collecting, k) THEN 1 ELSE 0)
        /\ (StarWidth(Collecting, k) /\ WidthArg(Collecting, k) < 0) =>
              /\ "LEFT" \in log[Collecting][k].disp.flags
              /\ log[Collecting][k].disp.width = 0 - WidthArg(Collecting, k)
        /\ (StarWidth(Collecting, k) /\ WidthArg(Collecting, k) >= 0) =>
              /\ log[Collecting][k].disp.width = WidthArg(Collecting, k)
              /\ "LEFT" \in log[Collecting][k].disp.flags
                    <=> input.format[log[Collecting][k].at + 1] = CH_MINUS
        /\ StarPrecision(Collecting, k) =>
              /\ "PRECISION" \in log[Collecting][k].disp.flags
              /\ log[Collecting][k].disp.precision =
                    Max(PrecisionArg(Collecting, k), 0)

\* C14: a `*` width pops one int, a negative one sets LEFT_ALIGN and its
\* absolute value is the width, for every int, the most negative included;
\* a `*` precision pops one int, sets PRECISION_SET and a negative one is
\* clamped to 0.  No call ends in the evaluation of a `*` field.
C14_Wildcards ==
    /\ pc[Collecting] # "abort"
    /\ WildcardsRead

(***************************************************************************)
(* Float directives: precisions and widths around the size of the buffer   *)
(* of _ftoa, magnitudes around PICO_PRINTF_MAX_FLOAT, halfway values at     *)
(* precision 0, and the adaptive notation.                                  *)
(***************************************************************************)
FloatSpecifiers == {CH_f, CH_F, CH_e, CH_E, CH_g, CH_G}

\* The fields between '%' and the specifier.
BufferFields ==
    { Bytes(<<".", "2", "5">>), Bytes(<<".", "3", "0">>), Bytes(<<".", "4", "0">>),
      Bytes(<<"+", ".", "3", "0">>), Bytes(<<"0", "4", "0">>),
      Bytes(<<"4", "0">>), Bytes(<<"-", "0", "4", "0">>) }

BufferValues ==
    { ArgDbl("fin", FALSE, 3, 2), ArgDbl("fin", TRUE, 3, 2),
      ArgDbl("fin", FALSE, 0, 1), ArgDbl("fin", FALSE, 10000000, 1) }

MagnitudeFields == { << >>, Bytes(<<"1", "2">>), Bytes(<<".", "1">>) }

\* Twice PICO_PRINTF_MAX_FLOAT, half of it, and infinity.
MagnitudeValues ==
    { ArgDbl("fin", FALSE, 2 * PICO_PRINTF_MAX_FLOAT, 1),
      ArgDbl("fin", TRUE, 2 * PICO_PRINTF_MAX_FLOAT, 1),
      ArgDbl("fin", TRUE, PICO_PRINTF_MAX_FLOAT, 2),
      ArgDbl("inf", FALSE, 0, 1) }

\* Halves and quarters: n / 4 for n in 0 .. 18.
RoundingValues == { ArgDbl("fin", FALSE, n, 4) : n \in 0..18 }

\* Precisions 1 to 3 with values whose scaled fraction (v - w) * 10^p is at,
\* above or below one half.  A value with a denominator that is not a power
\* of two stands for the double nearest to it: for each of these the
\* product (value - whole) * pow10[p] is rounded to the exact result the
\* rational gives (0.95 * 10.0 is 9.5, 0.05 * 10.0 is 0.5).
HalfDirectives ==
    { Item(Bytes(<<"%", ".", "1", "f">>), <<ArgDbl("fin", FALSE, n[1], n[2])>>) :
          n \in { <<1, 4>>, <<3, 4>>, <<1, 2>>, <<1, 20>>, <<3, 20>>, <<7, 20>>,
                  <<19, 20>>, <<39, 20>>, <<99, 100>>, <<24, 25>>, <<3, 10>> } }
    \cup { Item(Bytes(<<"%", ".", "2", "f">>), <<ArgDbl("fin", FALSE, n[1], n[2])>>) :
          n \in { <<1, 8>>, <<3, 8>>, <<5, 8>>, <<7, 8>>, <<1, 4>>,
                  <<199, 200>>, <<999, 1000>> } }
    \cup { Item(Bytes(<<"%", ".", "3", "F">>), <<ArgDbl("fin", FALSE, n[1], n[2])>>) :
          n \in { <<1, 16>>, <<3, 16>>, <<1999, 2000>> } }

\* What follows the directive in the format.
FloatTails ==
    { Item(<< >>, << >>), Item(<<CH_z>>, << >>), Item(<<CH_PCT, CH_d>>, <<ArgInt(7)>>) }

FloatDirectives ==
    { Item(<<CH_PCT>> \o fd \o <<sp>>, <<v>>) :
          fd \in BufferFields, sp \in FloatSpecifiers, v \in BufferValues }
    \cup { Item(<<CH_PCT>> \o fd \o <<sp>>, <<v>>) :
          fd \in MagnitudeFields, sp \in FloatSpecifiers, v \in MagnitudeValues }
    \* PICO_PRINTF_MAX_FLOAT itself, in the fixed notation
    \cup { Item(<<CH_PCT>> \o fd \o <<sp>>,
                <<ArgDbl("fin", neg, PICO_PRINTF_MAX_FLOAT, 1)>>) :
          fd \in MagnitudeFields, sp \in {CH_f, CH_F}, neg \in BOOLEAN }
    \cup { Item(Bytes(<<"%", ".", "0", "f">>), <<v>>) : v \in RoundingValues }
    \cup HalfDirectives

\* The scenarios of three directives separated by spaces.
FloatScenarios ==
    { Item(Bytes(<<"%", "g", " ", "%", "g", " ", "%", "g">>),
           <<ArgDbl("fin", FALSE, 1, 10000), ArgDbl("fin", FALSE, 1, 1),
             ArgDbl("fin", FALSE, 10000000, 1)>>),
      Item(Bytes(<<"%", ".", "0", "f", " ", "%", ".", "0", "f", " ", "%", ".", "0", "f">>),
           <<ArgDbl("fin", FALSE, 3, 2), ArgDbl("fin", FALSE, 5, 2),
             ArgDbl("fin", FALSE, 7, 2)>>) }

FloatInputs ==
    { Item(d.format \o t.format, d.args \o t.args) :
          d \in FloatDirectives, t \in FloatTails }
    \cup FloatScenarios

NextFloat ==
    \/ Call(Collecting, FloatInputs)
    \/ Literal(Collecting)
    \/ Directive(Collecting)
    \/ Return(Collecting)

SpecFloat == Init /\ [][NextFloat]_vars

\* The directives of call c with a float specifier.
FloatDirectivesOf(c) ==
    {k \in Directives(c) : log[c][k].disp.specifier \in FloatSpecifiers}

\* The bytes s occur in seg, one after the other.
Within(s, seg) ==
    \E o \in 0..(Len(seg) - Len(s)) : SubSeq(seg, o + 1, o + Len(s)) = s

\* _ftoa ran out of buffer in the directive at log[c][k].
BufferExceeded(c, k) == Within(STR_exceeded_ftoa, Segment(c, k))

\* C15: a float directive whose conversion runs out of the float buffer
\* emits the diagnostic %!(exceeded PICO_PRINTF_FTOA_BUFFER_SIZE) and nothing
\* else: no digits, no padding, no exponent suffix.  The next element of the
\* format is then rendered as usual.
C15_BufferExceeded ==
    \A k \in FloatDirectivesOf(Collecting) :
        BufferExceeded(Collecting, k) =>
            /\ Segment(Collecting, k) = STR_exceeded_ftoa
            /\ log[Collecting][k].va2 = log[Collecting][k].va1 + 1
            /\ Done(Collecting) =>
                  SubSeq(ctx[Collecting].sunk,
                         log[Collecting][k].from + Len(Segment(Collecting, k)) + 1,
                         Len(ctx[Collecting].sunk))
                  = Rendered(input.format, input.args, log[Collecting][k].next,
                             log[Collecting][k].va2)

\* The same for the fixed notation only.
BufferExceededFixed ==
    \A k \in FloatDirectivesOf(Collecting) :
        (BufferExceeded(Collecting, k)
         /\ log[Collecting][k].disp.specifier \in {CH_f, CH_F}) =>
            /\ Segment(Collecting, k) = STR_exceeded_ftoa
            /\ log[Collecting][k].va2 = log[Collecting][k].va1 + 1

\* The double passed to the directive at log[c][k].
DoubleOf(c, k) == va_arg(input.args, log[c][k].va1)

\* v is finite and its magnitude is above PICO_PRINTF_MAX_FLOAT.
AboveMax(v) ==
    /\ v.cls = "fin"
    /\ v.num \div v.den >= PICO_PRINTF_MAX_FLOAT
    /\ v.num # PICO_PRINTF_MAX_FLOAT * v.den

\* The directive at log[c][k] is refused on magnitude.
Refused(c, k) == Within(STR_exceeded_max, Segment(c, k))

\* C16: %f and %F refuse a finite value of magnitude above MAX_FLOAT: the
\* directive emits %!(exceeded PICO_PRINTF_MAX_FLOAT) and nothing else, its
\* double is consumed and what follows is rendered with its own arguments;
\* no other value is refused, and %e %E %g %G refuse nothing.
C16_MaxFloat ==
    \A k \in FloatDirectivesOf(Collecting) :
        /\ log[Collecting][k].va2 = log[Collecting][k].va1 + 1
        /\ IF log[Collecting][k].disp.specifier \in {CH_f, CH_F}
              /\ AboveMax(DoubleOf(Collecting, k))
           THEN Segment(Collecting, k) = STR_exceeded_max
           ELSE ~Refused(Collecting, k)
        /\ Done(Collecting) =>
              SubSeq(ctx[Collecting].sunk,
                     log[Collecting][k].from + Len(Segment(Collecting, k)) + 1,
                     Len(ctx[Collecting].sunk))
              = Rendered(input.format, input.args, log[Collecting][k].next,
                         log[Collecting][k].va1 + 1)

\* -2e9 is refused by %F and the %d after it renders its own 7; the same
\* value is rendered by %e.
C16_Witness ==
    /\ Done(Collecting)
    /\ Len(log[Collecting]) = 2
    /\ log[Collecting][1].disp.specifier = CH_F
    /\ DoubleOf(Collecting, 1).neg
    /\ AboveMax(DoubleOf(Collecting, 1))
    /\ ctx[Collecting].sunk = STR_exceeded_max \o <<CH_ZERO + 7>>

(***************************************************************************)
(* The library built with PICO_PRINTF_SUPPORT_FLOAT 0: the table is        *)
(* compiled without the conv_double entries.                                *)
(***************************************************************************)

\* specifier_table as compiled with the given PICO_PRINTF_SUPPORT_FLOAT and
\* PICO_PRINTF_SUPPORT_EXPONENTIAL.
CompiledTable(float, exponential) ==
    [b \in 0..(TABLE_LEN - 1) |->
        CASE b \in {CH_f, CH_F} /\ ~float -> "NULL"
          [] b \in {CH_e, CH_E, CH_g, CH_G} /\ ~(float /\ exponential) -> "NULL"
          [] OTHER -> BuiltinTable[b]]

InitNoFloat ==
    /\ build \in Builds
    /\ specifier_table \in {CompiledTable(FALSE, exponential) : exponential \in BOOLEAN}
    /\ input = NoInput
    /\ pc   = [c \in Calls |-> "idle"]
    /\ ctx  = [c \in Calls |-> [fct |-> Sink(c), idx |-> 0, sunk |-> << >>, put |-> << >>]]
    /\ fpos = [c \in Calls |-> 1]
    /\ va   = [c \in Calls |-> [caller |-> 1, save |-> 1]]
    /\ st   = [c \in Calls |-> ZeroState]
    /\ ret  = [c \in Calls |-> 0]
    /\ log  = [c \in Calls |-> << >>]
    /\ installs = << >>

\* What precedes the float directive in the format.
NoFloatHeads ==
    { Item(<< >>, << >>), Item(<<CH_a>>, << >>),
      Item(<<CH_PCT, CH_d>>, <<ArgInt(5)>>),
      Item(Bytes(<<"%", "3", "s">>), <<ArgStr(Bytes(<<"h", "i">>))>>) }

\* A float directive closes the format: the argument it is passed is a
\* double, which no other directive may be given.
NoFloatInputs ==
    { Item(h.format \o <<CH_PCT>> \o fd \o <<sp>>, h.args \o <<v>>) :
          h \in NoFloatHeads, fd \in MagnitudeFields, sp \in FloatSpecifiers,
          v \in {ArgDbl("fin", FALSE, 3, 2), ArgDbl("fin", FALSE, 0, 1)} }

NextNoFloat ==
    \/ Call(Collecting, NoFloatInputs)
    \/ Literal(Collecting)
    \/ Directive(Collecting)
    \/ Return(Collecting)

SpecNoFloat == InitNoFloat /\ [][NextNoFloat]_vars

\* C17: built with SUPPORT_FLOAT off, a directive with one of the specifiers
\* f F e E g G emits the two bytes ?? and consumes one double argument.
C17_FloatOff ==
    \A k \in FloatDirectivesOf(Collecting) :
        /\ Segment(Collecting, k) = Bytes(<<"?", "?">>)
        /\ log[Collecting][k].va2 = log[Collecting][k].va1 + 1

\* Built with SUPPORT_FLOAT off, a float specifier has no handler: the
\* directive emits the diagnostic for an unknown specifier and pops nothing.
FloatOffUnknown ==
    \A k \in FloatDirectivesOf(Collecting) :
        /\ log[Collecting][k].h = "NULL"
        /\ Segment(Collecting, k) =
              STR_unknown \o _put_quoted_byte(log[Collecting][k].disp.specifier)
                          \o <<CH_RPAREN>>
        /\ log[Collecting][k].va2 = log[Collecting][k].va1

(***************************************************************************)
(* Alternate form: one directive of base 2, 8 or 16 with and without the   *)
(* # flag, and the four directives of the scenario in one format.          *)
(***************************************************************************)
AltFlags == {FlagText(chosen) : chosen \in SUBSET {CH_MINUS, CH_ZERO, CH_HASH}}

AltWidths == {<< >>, Bytes(<<"6">>)}

AltValues ==
    {v \in ConvValues : v.format[1] \in {CH_x, CH_X, CH_o, CH_b}}
    \cup { Item(<<CH_x>>, <<ArgInt(48879)>>),
           Item(<<CH_p>>, <<ArgPtr(0)>>),
           Item(<<CH_p>>, <<ArgPtr(48879)>>) }

AltDirectives ==
    { Item(<<CH_PCT>> \o fl \o w \o p \o v.format, v.args) :
          fl \in AltFlags, w \in AltWidths, p \in ConvPrecisions, v \in AltValues }

AltScenario ==
    Item(Bytes(<<"%", "#", "b", " ", "%", "#", "o", " ",
                 "%", "#", "x", " ", "%", "#", "X">>),
         <<ArgInt(5), ArgInt(8), ArgInt(255), ArgInt(255)>>)

AltInputs == AltDirectives \cup {AltScenario}

NextAlt ==
    \/ Call(Collecting, AltInputs)
    \/ Literal(Collecting)
    \/ Directive(Collecting)
    \/ Return(Collecting)

SpecAlt == Init /\ [][NextAlt]_vars

\* The base of the directive, and the specifier _ntoa sees: conv_ptr sets
\* specifier to X before it converts.
AltBase(specifier) == IF specifier = CH_p THEN 16 ELSE UintBase(specifier)

AltCase(specifier) == IF specifier = CH_p THEN CH_X ELSE specifier

\* The digits of n in the base, most significant first; none for zero.
RECURSIVE InBase(_, _, _)
InBase(n, base, specifier) ==
    IF n = 0 THEN << >>
    ELSE InBase(n \div base, base, specifier) \o <<DigitChar(n % base, specifier)>>

\* The base prefix of the alternate form.
AltPrefix(base, specifier) ==
    CASE base = 16 -> <<CH_ZERO, specifier>>
      [] base = 2  -> <<CH_ZERO, CH_b>>
      [] base = 8  -> <<CH_ZERO>>
      [] OTHER     -> << >>

Unspaced(s) == SelectSeq(s, LAMBDA b : b # CH_SPACE)

\* body is the prefix, then zeros only, then the digits.
Framed(body, prefix, digits) ==
    /\ Len(body) >= Len(prefix) + Len(digits)
    /\ SubSeq(body, 1, Len(prefix)) = prefix
    /\ SubSeq(body, Len(body) - Len(digits) + 1, Len(body)) = digits
    /\ \A i \in (Len(prefix) + 1)..(Len(body) - Len(digits)) : body[i] = CH_ZERO

\* The bytes of seg other than spaces are contiguous in it.
Contiguous(seg) ==
    \E a \in 0..Len(seg) :
        SubSeq(seg, a + 1, a + Len(Unspaced(seg))) = Unspaced(seg)

AltDirective(c, k) ==
    /\ log[c][k].disp.specifier \in {CH_x, CH_X, CH_o, CH_b, CH_p}
    /\ "HASH" \in log[c][k].disp.flags

AltValue(c, k) == va_arg(input.args, log[c][k].va1)

\* C18: with the # flag and a non-zero value, base 16 output carries 0x or
\* 0X by the case of the specifier, base 2 carries 0b and base 8 one 0,
\* placed before the zero padding and the digits with no space between; with
\* the value zero no prefix is emitted.  The format "%#b %#o %#x %#X" with
\* 5, 8, 255, 255 renders 0b101 010 0xff 0XFF.
C18_AltForm ==
    /\ \A k \in Directives(Collecting) :
          AltDirective(Collecting, k) =>
              /\ Contiguous(Segment(Collecting, k))
              /\ Framed(Unspaced(Segment(Collecting, k)),
                        IF AltValue(Collecting, k) # 0
                        THEN AltPrefix(AltBase(log[Collecting][k].disp.specifier),
                                       AltCase(log[Collecting][k].disp.specifier))
                        ELSE << >>,
                        InBase(AltValue(Collecting, k),
                               AltBase(log[Collecting][k].disp.specifier),
                               AltCase(log[Collecting][k].disp.specifier)))
    /\ (Done(Collecting) /\ input.format = AltScenario.format) =>
          ctx[Collecting].put =
              Bytes(<<"0", "b", "1", "0", "1", " ", "0", "1", "0", " ",
                      "0", "x", "f", "f", " ", "0", "X", "F", "F">>)

\* The scenario has run to its end, with four prefixed directives.
C18_Witness ==
    /\ Done(Collecting)
    /\ input.format = AltScenario.format
    /\ input.args = AltScenario.args
    /\ Cardinality({k \in Directives(Collecting) : AltDirective(Collecting, k)}) = 4
    /\ Len(ctx[Collecting].put) = 19

(***************************************************************************)
(* The adaptive notation on 0.0001, 1.0 and 1e7.                            *)
(***************************************************************************)
AdaptiveFormat == Bytes(<<"%", "g", " ", "%", "g", " ", "%", "g">>)

AdaptiveRun ==
    /\ Done(Collecting)
    /\ input.format = AdaptiveFormat
    /\ input.args = <<ArgDbl("fin", FALSE, 1, 10000), ArgDbl("fin", FALSE, 1, 1),
                      ArgDbl("fin", FALSE, 10000000, 1)>>

\* C19: the format "%g %g %g" with 0.0001, 1.0, 1e7 renders exactly
\* 0.0001 1 1e+07: no trailing zeros in the fixed fallback, and the default
\* precision counted as significant figures in the exponential form.
C19_AdaptiveScenario ==
    AdaptiveRun =>
        ctx[Collecting].put =
            Bytes(<<"0", ".", "0", "0", "0", "1", " ", "1", " ",
                    "1", "e", "+", "0", "7">>)

\* What the call puts: the fallback keeps its trailing zeros and the
\* exponential form keeps six fraction digits.
AdaptiveAsCoded ==
    AdaptiveRun =>
        ctx[Collecting].put =
            Bytes(<<"0", ".", "0", "0", "0", "1", "0", "0", "0", "0", "0", " ",
                    "1", ".", "0", "0", "0", "0", "0", " ",
                    "1", ".", "0", "0", "0", "0", "0", "0", "e", "+", "0", "7">>)

(***************************************************************************)
(* Rounding of %f at precision 0.                                          *)
(***************************************************************************)
\* A directive f or F with precision 0 and no other field, given a finite
\* non-negative value that is not refused.
RoundsWhole(c, k) ==
    /\ log[c][k].disp.specifier \in {CH_f, CH_F}
    /\ log[c][k].disp.flags = {"PRECISION"}
    /\ log[c][k].disp.precision = 0
    /\ log[c][k].disp.width = 0
    /\ DoubleOf(c, k).cls = "fin"
    /\ ~DoubleOf(c, k).neg
    /\ DoubleOf(c, k).num \div DoubleOf(c, k).den < PICO_PRINTF_MAX_FLOAT

\* The integer nearest to num/den, the even one of the two when halfway.
NearestEven(num, den) ==
    IF 2 * (num % den) > den THEN (num \div den) + 1
    ELSE IF 2 * (num % den) < den THEN num \div den
    ELSE IF (num \div den) % 2 = 1 THEN (num \div den) + 1
    ELSE num \div den

Decimal(n) == IF n = 0 THEN <<CH_ZERO>> ELSE InBase(n, 10, CH_d)

RoundingFormat ==
    Bytes(<<"%", ".", "0", "f", " ", "%", ".", "0", "f", " ", "%", ".", "0", "f">>)

\* C20: at precision 0 a non-negative value exactly halfway between two
\* integers is rendered by %f as the even neighbour (1.5 -> 2, 2.5 -> 2,
\* 3.5 -> 4, 0.5 -> 0); a fractional part above one half rounds the whole
\* part up and one below one half keeps it.  The format "%.0f %.0f %.0f"
\* with 1.5, 2.5, 3.5 renders 2 2 4.
C20_HalfToEven ==
    /\ \A k \in Directives(Collecting) :
          RoundsWhole(Collecting, k) =>
              Segment(Collecting, k) =
                  Decimal(NearestEven(DoubleOf(Collecting, k).num,
                                      DoubleOf(Collecting, k).den))
    /\ (Done(Collecting) /\ input.format = RoundingFormat) =>
          ctx[Collecting].put = Bytes(<<"2", " ", "2", " ", "4">>)

\* The scenario has run to its end: three halfway values, two with an odd
\* whole part.
C20_Witness ==
    /\ Done(Collecting)
    /\ input.format = RoundingFormat
    /\ Cardinality({k \in Directives(Collecting) :
                       /\ RoundsWhole(Collecting, k)
                       /\ 2 * (DoubleOf(Collecting, k).num % DoubleOf(Collecting, k).den)
                             = DoubleOf(Collecting, k).den}) = 3
    /\ Len(ctx[Collecting].put) = 5

(***************************************************************************)
(* Every specifier byte: the format is '%' and one byte, for each byte     *)
(* value, on each build; a handler may be installed at '~' first.          *)
(***************************************************************************)
\* The argument a built-in handler at byte b pops.
ByteArg(b) ==
    CASE b = CH_s -> ArgStr(Bytes(<<"h", "i">>))
      [] b \in FloatSpecifiers -> ArgDbl("fin", FALSE, 3, 2)
      [] OTHER -> ArgInt(7)

\* '%' alone ends the format inside the directive: its specifier is the
\* terminator, the byte 0.
ByteInputs ==
    {Item(<<CH_PCT, b>>, <<ByteArg(b), ArgInt(7)>>) : b \in 1..255}
    \cup {Item(<<CH_PCT>>, << >>)}

NextByte ==
    \/ Install(CH_TILDE, "hA")
    \/ Call(Collecting, ByteInputs)
    \/ Directive(Collecting)
    \/ Return(Collecting)
    \/ PastEnd(Collecting)

SpecByte == Init /\ [][NextByte]_vars

\* The guard of the table access: the index is within the array.
TableRead(b, bld) == CharToUInt(b, bld) < TABLE_LEN

\* C21: the specifier table is never indexed with a byte above 0x7E: for
\* every specifier byte 0..255, on builds with signed and with unsigned
\* char, the table is read only when the byte is <= 0x7E, at the index that
\* is the byte, and every other byte gets the unknown-specifier diagnostic.
C21_TableIndex ==
    /\ \A b \in 0..255 :
          TableRead(b, build) => (b <= CH_TILDE /\ CharToUInt(b, build) = b)
    /\ \A k \in Directives(Collecting) :
          /\ log[Collecting][k].h # "NULL" =>
                /\ log[Collecting][k].disp.specifier <= CH_TILDE
                /\ log[Collecting][k].h =
                      specifier_table[log[Collecting][k].disp.specifier]
          /\ log[Collecting][k].disp.specifier > CH_TILDE =>
                /\ log[Collecting][k].h = "NULL"
                /\ log[Collecting][k].va2 = log[Collecting][k].va1
                /\ Segment(Collecting, k) =
                      STR_unknown
                      \o _put_quoted_byte(log[Collecting][k].disp.specifier)
                      \o <<CH_RPAREN>>

\* The byte 'd' + 0x80 on a build where char is signed: no handler is
\* called.
C21_Witness ==
    /\ Done(Collecting)
    /\ build.charSigned
    /\ \E k \in Directives(Collecting) :
          /\ log[Collecting][k].disp.specifier = CH_d + 128
          /\ log[Collecting][k].h = "NULL"

(***************************************************************************)
(* Integer directives of the conversion-level specification: digits and    *)
(* padding.                                                                *)
(***************************************************************************)
IntegerSpecifiers == {CH_d, CH_i, CH_u, CH_x, CH_X, CH_o, CH_b}

IntegerDirective(c, k) == log[c][k].disp.specifier \in IntegerSpecifiers

\* The int passed to the directive at log[c][k].
IntegerOf(c, k) == va_arg(input.args, log[c][k].va1)

Digitless(seg) == \A i \in 1..Len(seg) : seg[i] \notin DigitChars

ZeroPrecision(c, k) ==
    /\ "PRECISION" \in log[c][k].disp.flags
    /\ log[c][k].disp.precision = 0

\* C22: an integer conversion emits no digit character if and only if the
\* value is zero and PRECISION_SET with precision 0; in every other case,
\* for every combination of flags and width, at least one digit is emitted.
C22_DigitEmitted ==
    \A k \in Directives(Collecting) :
        IntegerDirective(Collecting, k) =>
            (Digitless(Segment(Collecting, k))
                <=> (IntegerOf(Collecting, k) = 0 /\ ZeroPrecision(Collecting, k)))

\* The zero padding up to the width leaves no room for a digit: the value is
\* zero, zeros are asked for, and the sign alone fills the width.
SignFillsWidth(c, k) ==
    /\ "PRECISION" \notin log[c][k].disp.flags
    /\ "ZEROPAD" \in log[c][k].disp.flags
    /\ "LEFT" \notin log[c][k].disp.flags
    /\ log[c][k].disp.specifier \in {CH_d, CH_i}
    /\ log[c][k].disp.flags \cap {"PLUS", "SPACE"} # {}
    /\ log[c][k].disp.width = 1

\* What the conversion does: the value zero is also left without a digit
\* when the sign fills a zero-padded width of 1.
DigitlessAsCoded ==
    \A k \in Directives(Collecting) :
        IntegerDirective(Collecting, k) =>
            (Digitless(Segment(Collecting, k))
                <=> (IntegerOf(Collecting, k) = 0
                     /\ (ZeroPrecision(Collecting, k) \/ SignFillsWidth(Collecting, k))))

\* The sign or base prefix of the directive d for the value v.
SignOrPrefix(d, v) ==
    IF d.specifier \in {CH_d, CH_i}
    THEN (IF v < 0 THEN <<CH_MINUS>>
          ELSE IF "PLUS" \in d.flags THEN <<CH_PLUS>>
          ELSE IF "SPACE" \in d.flags THEN <<CH_SPACE>>
          ELSE << >>)
    ELSE IF "HASH" \in d.flags /\ v # 0 /\ d.specifier # CH_u
    THEN AltPrefix(UintBase(d.specifier), d.specifier)
    ELSE << >>

\* The digits of the magnitude of v, one 0 for zero.
Magnitude(d, v) ==
    IF v = 0 THEN <<CH_ZERO>>
    ELSE InBase(Abs(v), UintBase(d.specifier), d.specifier)

\* With a precision: the digits extended with zeros to the precision (none
\* for zero at precision 0), after the sign or prefix.
PrecisionBody(d, v) ==
    SignOrPrefix(d, v)
    \o (IF v = 0 THEN Rep(CH_ZERO, d.precision)
        ELSE Rep(CH_ZERO, d.precision - Len(Magnitude(d, v))) \o Magnitude(d, v))

\* body padded with spaces to the width.
SpacePadded(d, body) ==
    IF "LEFT" \in d.flags
    THEN body \o Rep(CH_SPACE, d.width - Len(body))
    ELSE Rep(CH_SPACE, d.width - Len(body)) \o body

\* With the 0 flag: zeros between the sign or prefix and the digits, up to
\* the width.
ZeroPadded(d, v) ==
    SignOrPrefix(d, v)
    \o Rep(CH_ZERO, d.width - Len(SignOrPrefix(d, v)) - Len(Magnitude(d, v)))
    \o Magnitude(d, v)

PaddingLaidOut(d, v, seg) ==
    /\ "PRECISION" \in d.flags => seg = SpacePadded(d, PrecisionBody(d, v))
    /\ ("ZEROPAD" \in d.flags /\ "PRECISION" \notin d.flags /\ "LEFT" \notin d.flags) =>
           /\ seg = ZeroPadded(d, v)
           /\ Len(seg) = Max(d.width, Len(SignOrPrefix(d, v)) + Len(Magnitude(d, v)))

\* C23: with a precision the 0 flag is disabled, the digits are extended
\* with zeros to at least precision digits and the rest of the width is
\* filled with spaces; with the 0 flag, without precision and without the -
\* flag, zeros are inserted between the sign or prefix and the digits so that
\* sign or prefix, zeros and digits are exactly max(width, content length)
\* bytes, the sign or prefix counted.
C23_PaddingLayout ==
    \A k \in Directives(Collecting) :
        IntegerDirective(Collecting, k) =>
            PaddingLaidOut(log[Collecting][k].disp, IntegerOf(Collecting, k),
                           Segment(Collecting, k))

\* The layout holds for every directive but the zero whose sign fills the
\* zero-padded width.
PaddingAsCoded ==
    \A k \in Directives(Collecting) :
        (IntegerDirective(Collecting, k)
         /\ ~(IntegerOf(Collecting, k) = 0 /\ SignFillsWidth(Collecting, k))) =>
            PaddingLaidOut(log[Collecting][k].disp, IntegerOf(Collecting, k),
                           Segment(Collecting, k))

(***************************************************************************)
(* Integers at the ends of their types: one directive d i u x X o b with a *)
(* size modifier, given a pattern on limbs of the width the directive      *)
(* reads, or an int.                                                       *)
(***************************************************************************)
\* Magnitudes with their decimal and hexadecimal digits.
WideNumerals ==
    {
      \* UINT_MAX
      [limbs |-> <<65535, 65535>>,
       dec |-> <<4, 2, 9, 4, 9, 6, 7, 2, 9, 5>>,
       hex |-> <<15, 15, 15, 15, 15, 15, 15, 15>>],
      \* 2^31
      [limbs |-> <<0, 32768>>,
       dec |-> <<2, 1, 4, 7, 4, 8, 3, 6, 4, 8>>,
       hex |-> <<8, 0, 0, 0, 0, 0, 0, 0>>],
      \* 0xDEADBEEF
      [limbs |-> <<48879, 57005>>,
       dec |-> <<3, 7, 3, 5, 9, 2, 8, 5, 5, 9>>,
       hex |-> <<13, 14, 10, 13, 11, 14, 14, 15>>],
      \* 255
      [limbs |-> <<255, 0>>,
       dec |-> <<2, 5, 5>>,
       hex |-> <<15, 15>>],
      \* ULLONG_MAX
      [limbs |-> <<65535, 65535, 65535, 65535>>,
       dec |-> <<1, 8, 4, 4, 6, 7, 4, 4, 0, 7, 3, 7, 0, 9, 5, 5, 1, 6, 1, 5>>,
       hex |-> <<15, 15, 15, 15, 15, 15, 15, 15, 15, 15, 15, 15, 15, 15, 15, 15>>],
      \* 2^63
      [limbs |-> <<0, 0, 0, 32768>>,
       dec |-> <<9, 2, 2, 3, 3, 7, 2, 0, 3, 6, 8, 5, 4, 7, 7, 5, 8, 0, 8>>,
       hex |-> <<8, 0, 0, 0, 0, 0, 0, 0, 0, 0, 0, 0, 0, 0, 0, 0>>],
      \* 10^19
      [limbs |-> <<0, 35304, 8964, 35527>>,
       dec |-> <<1, 0, 0, 0, 0, 0, 0, 0, 0, 0, 0, 0, 0, 0, 0, 0, 0, 0, 0, 0>>,
       hex |-> <<8, 10, 12, 7, 2, 3, 0, 4, 8, 9, 14, 8, 0, 0, 0, 0>>],
      \* 2^32
      [limbs |-> <<0, 0, 1, 0>>,
       dec |-> <<4, 2, 9, 4, 9, 6, 7, 2, 9, 6>>,
       hex |-> <<1, 0, 0, 0, 0, 0, 0, 0, 0>>] }

\* Patterns of signed values with the decimal digits of their magnitude.
SignedNumerals ==
    {
      \* INT_MIN
      [limbs |-> <<0, 32768>>, neg |-> TRUE,
       dec |-> <<2, 1, 4, 7, 4, 8, 3, 6, 4, 8>>],
      \* -1
      [limbs |-> <<65535, 65535>>, neg |-> TRUE,
       dec |-> <<1>>],
      \* INT_MAX
      [limbs |-> <<65535, 32767>>, neg |-> FALSE,
       dec |-> <<2, 1, 4, 7, 4, 8, 3, 6, 4, 7>>],
      \* -INT_MAX
      [limbs |-> <<1, 32768>>, neg |-> TRUE,
       dec |-> <<2, 1, 4, 7, 4, 8, 3, 6, 4, 7>>],
      \* LLONG_MIN
      [limbs |-> <<0, 0, 0, 32768>>, neg |-> TRUE,
       dec |-> <<9, 2, 2, 3, 3, 7, 2, 0, 3, 6, 8, 5, 4, 7, 7, 5, 8, 0, 8>>],
      \* LLONG_MAX
      [limbs |-> <<65535, 65535, 65535, 32767>>, neg |-> FALSE,
       dec |-> <<9, 2, 2, 3, 3, 7, 2, 0, 3, 6, 8, 5, 4, 7, 7, 5, 8, 0, 7>>],
      \* -2^31 as long long
      [limbs |-> <<0, 32768, 65535, 65535>>, neg |-> TRUE,
       dec |-> <<2, 1, 4, 7, 4, 8, 3, 6, 4, 8>>] }

SizeTexts == {<< >>, <<CH_h>>, <<CH_h, CH_h>>, <<CH_l>>, <<CH_l, CH_l>>}

\* A pattern of len limbs is what a directive with the size text reads.
WideFits(len, text, bld) ==
    CASE text = <<CH_l, CH_l>> -> len = 4
      [] text = <<CH_l>>       -> len = (IF bld.lp64 THEN 4 ELSE 2)
      [] OTHER                 -> len = 2

UnsignedInts == {5, 255, 48879, 65535, 65536, 1000000000, (2^30 - 1) + 2^30}

SignedInts == {5, 0 - 37, 0 - 128, 128, 0 - 32768, 32768, (2^30 - 1) + 2^30}

WideInputs(bld) ==
    { Item(<<CH_PCT>> \o x[1] \o <<x[2]>>, <<ArgWide(x[3].limbs)>>) :
          x \in { y \in SizeTexts \X {CH_u, CH_x, CH_X, CH_o, CH_b} \X WideNumerals :
                      WideFits(Len(y[3].limbs), y[1], bld) } }
    \cup
    { Item(<<CH_PCT>> \o x[1] \o <<x[2]>>, <<ArgWide(x[3].limbs)>>) :
          x \in { y \in SizeTexts \X {CH_d, CH_i} \X SignedNumerals :
                      WideFits(Len(y[3].limbs), y[1], bld) } }
    \cup
    { Item(<<CH_PCT>> \o x[1] \o <<x[2]>>, <<ArgInt(x[3])>>) :
          x \in SizeTexts \X {CH_u, CH_x, CH_X, CH_o, CH_b} \X UnsignedInts }
    \cup
    { Item(<<CH_PCT>> \o x[1] \o <<x[2]>>, <<ArgInt(x[3])>>) :
          x \in SizeTexts \X {CH_d, CH_i} \X SignedInts }

\* The directive d of conv_sint reads the minimum of its signed type: the
\* magnitude 0 - value is evaluated in the signed type and overflows.
NegatesMinimum(d, args, table, bld) ==
    /\ Lookup(table, d.st.specifier, bld) = "conv_sint"
    /\ IsWide(args, d.va)
    /\ d.st.size \notin {"SHORT", "CHAR"}
    /\ WideMinimum(WidePattern(args[d.va], IntBits(d.st.size, bld)))

\* One iteration of `while (*format)`: conv_sint evaluates 0 - value on the
\* minimum of the type and the negation traps; the call is aborted.  (Where
\* it wraps instead, the iteration is the one of Directive.)
NegateValue(c) ==
    /\ pc[c] = "run"
    /\ At(input.format, fpos[c]) = CH_PCT
    /\ NegatesMinimum(ParseDirective(input.format, fpos[c] + 1, input.args,
                                     va[c][ArgsCursor], build),
                      input.args, specifier_table, build)
    /\ pc' = [pc EXCEPT ![c] = "abort"]
    /\ va' = [va EXCEPT ![c][ArgsCursor] = @ + 1]
    /\ UNCHANGED <<build, specifier_table, input, ctx, fpos, st, ret, log, installs>>

NextWide ==
    \/ Call(Collecting, WideInputs(build))
    \/ Directive(Collecting)
    \/ NegateValue(Collecting)
    \/ Return(Collecting)

SpecWide == Init /\ [][NextWide]_vars

\* The character of the digit value d.
NumeralChar(d, specifier) ==
    IF d < 10 THEN CH_ZERO + d
    ELSE IF specifier = CH_X THEN CH_A + (d - 10)
    ELSE CH_a + (d - 10)

Numeral(digits, specifier) ==
    [i \in 1..Len(digits) |-> NumeralChar(digits[i], specifier)]

\* The digit values of n in the base, most significant first.
RECURSIVE Positional(_, _)
Positional(n, base) ==
    IF n < base THEN <<n>> ELSE Positional(n \div base, base) \o <<n % base>>

\* The binary digits of a hexadecimal numeral, and the octal digits of a
\* binary one.
RECURSIVE BitsOfHex(_)
BitsOfHex(hex) ==
    IF hex = << >> THEN << >>
    ELSE <<Head(hex) \div 8, (Head(hex) \div 4) % 2, (Head(hex) \div 2) % 2, Head(hex) % 2>>
         \o BitsOfHex(Tail(hex))

RECURSIVE Stripped(_)
Stripped(digits) ==
    IF Len(digits) > 1 /\ Head(digits) = 0 THEN Stripped(Tail(digits)) ELSE digits

RECURSIVE OctalOfBits(_)
OctalOfBits(bits) ==
    IF Len(bits) = 0 THEN << >>
    ELSE IF Len(bits) = 1 THEN <<bits[1]>>
    ELSE IF Len(bits) = 2 THEN <<2 * bits[1] + bits[2]>>
    ELSE OctalOfBits(SubSeq(bits, 1, Len(bits) - 3))
         \o <<4 * bits[Len(bits) - 2] + 2 * bits[Len(bits) - 1] + bits[Len(bits)]>>

NumeralOf(r, base) ==
    CASE base = 10 -> r.dec
      [] base = 16 -> r.hex
      [] base = 2  -> Stripped(BitsOfHex(r.hex))
      [] OTHER     -> OctalOfBits(Stripped(BitsOfHex(r.hex)))

\* The directive at log[c][k] converts a pattern on limbs.
OnLimbs(c, k) ==
    /\ IsWide(input.args, log[c][k].va1)
    /\ log[c][k].disp.size \notin {"SHORT", "CHAR"}

BitsOf(c, k) == IntBits(log[c][k].disp.size, build)

\* The digits the unsigned directive at log[c][k] is to emit.
MagnitudeDigits(c, k) ==
    IF OnLimbs(c, k)
    THEN NumeralOf(CHOOSE r \in WideNumerals :
                       r.limbs = input.args[log[c][k].va1].s,
                   UintBase(log[c][k].disp.specifier))
    ELSE Positional(UintValue(log[c][k].disp, IntArg(input.args, log[c][k].va1),
                              BitsOf(c, k)),
                    UintBase(log[c][k].disp.specifier))

\* The divisor of the digit-counting loop stays at or below the magnitude
\* and its multiplication by the base does not wrap, on limbs and on ints.
RECURSIVE WideDivBounded(_, _, _)
WideDivBounded(absval, base, div) ==
    /\ WideGeq(absval, div)
    /\ WideQuot(absval, div, base) >= base =>
          /\ WideGeq(absval, WideMul(div, base))
          /\ WideDiv(WideMul(div, base), base) = div
          /\ WideDivBounded(absval, base, WideMul(div, base))

\* The loop is entered for a non-zero magnitude only.
RECURSIVE DivBounded(_, _, _)
DivBounded(absval, base, div) ==
    absval # 0 =>
        /\ div <= absval
        /\ absval \div div >= base =>
              /\ div <= absval \div base
              /\ DivBounded(absval, base, div * base)

DivisorBounded(c, k) ==
    IF OnLimbs(c, k)
    THEN WideDivBounded(WidePattern(input.args[log[c][k].va1], BitsOf(c, k)),
                        UintBase(log[c][k].disp.specifier),
                        Limbs(1, BitsOf(c, k) \div 16))
    ELSE DivBounded(UintValue(log[c][k].disp, IntArg(input.args, log[c][k].va1),
                              BitsOf(c, k)),
                    UintBase(log[c][k].disp.specifier), 1)

\* C24: for every magnitude of the argument's unsigned type and every base
\* 2, 8, 10, 16 the digit characters emitted are the base-b representation
\* of the magnitude, most significant first and without leading zeros; digits
\* above 9 are A..F for the specifier X and a..f otherwise; the divisor of
\* the digit-counting loop never exceeds the magnitude, the maximum value of
\* the type included.
C24_Digits ==
    \A k \in Directives(Collecting) :
        log[Collecting][k].disp.specifier \in {CH_u, CH_x, CH_X, CH_o, CH_b} =>
            /\ Segment(Collecting, k) =
                  Numeral(MagnitudeDigits(Collecting, k),
                          log[Collecting][k].disp.specifier)
            /\ DivisorBounded(Collecting, k)

\* The maximum of unsigned long long has been rendered with %llX: sixteen
\* letters F.
C24_Witness ==
    /\ Done(Collecting)
    /\ \E k \in Directives(Collecting) :
          /\ log[Collecting][k].disp.specifier = CH_X
          /\ log[Collecting][k].disp.size = "LONG_LONG"
          /\ OnLimbs(Collecting, k)
          /\ Segment(Collecting, k) = Rep(CH_F, 16)

\* The signed value the directive at log[c][k] converts from an int: the
\* argument cast to the type of the size.
TruncatedOf(c, k) ==
    SintValue(log[c][k].disp, IntArg(input.args, log[c][k].va1), build)

\* The bytes the signed directive at log[c][k] is to emit: '-' for a
\* negative value, then the decimal digits of its magnitude.
SignedNumeral(c, k) ==
    IF OnLimbs(c, k)
    THEN (IF (CHOOSE r \in SignedNumerals :
                  r.limbs = input.args[log[c][k].va1].s).neg
          THEN <<CH_MINUS>> ELSE << >>)
         \o Numeral((CHOOSE r \in SignedNumerals :
                         r.limbs = input.args[log[c][k].va1].s).dec, CH_d)
    ELSE (IF TruncatedOf(c, k) < 0 THEN <<CH_MINUS>> ELSE << >>)
         \o Numeral(Positional(Abs(TruncatedOf(c, k)), 10), CH_d)

\* Every signed directive carried out emits the sign and the magnitude.
MagnitudeRendered ==
    \A k \in Directives(Collecting) :
        log[Collecting][k].disp.specifier \in {CH_d, CH_i} =>
            Segment(Collecting, k) = SignedNumeral(Collecting, k)

\* C25: signed conversion does not overflow on the most negative input: for
\* every signed value of each width (int, long, long long and the truncated
\* short and char forms) %d renders '-' for a negative value followed by the
\* decimal digits of the magnitude computed in the unsigned type; the minimum
\* -2^(w-1) renders as '-' and the digits of 2^(w-1).  No call ends in the
\* evaluation of the magnitude.
C25_MostNegative ==
    /\ pc[Collecting] # "abort"
    /\ MagnitudeRendered

(***************************************************************************)
(* Rounding of the fraction of %f at precisions 1 to 9.                    *)
(***************************************************************************)
\* A directive f or F with a precision of 1 to 9 and no other field, given a
\* finite non-negative value that is not refused.
RoundsFraction(c, k) ==
    /\ log[c][k].disp.specifier \in {CH_f, CH_F}
    /\ log[c][k].disp.flags = {"PRECISION"}
    /\ log[c][k].disp.precision \in 1..(POW10_LEN - 1)
    /\ log[c][k].disp.width = 0
    /\ DoubleOf(c, k).cls = "fin"
    /\ ~DoubleOf(c, k).neg
    /\ DoubleOf(c, k).num \div DoubleOf(c, k).den < PICO_PRINTF_MAX_FLOAT

\* (v - w) * 10^p times the denominator of v, its integer part, and whether
\* what is left of it is exactly one half.
ScaledBy(v, p) == (v.num % v.den) * Pow10(p)

IntegerPart(v, p) == ScaledBy(v, p) \div v.den

ExactHalf(v, p) == 2 * (ScaledBy(v, p) % v.den) = v.den

\* whole, the decimal point and frac in p digits.
FixedText(whole, frac, p) ==
    Decimal(whole) \o <<CH_DOT>> \o Rep(CH_ZERO, p - Len(Decimal(frac))) \o Decimal(frac)

\* The directive at log[c][k], whose scaled fraction is exactly halfway,
\* ends with frac as given by rounded: the converter's frac is that number
\* and, when it has no more than p digits, it is what follows the point.
HalfRoundedTo(c, k, rounded) ==
    /\ FtoaRound(DoubleOf(c, k).num, DoubleOf(c, k).den,
                 log[c][k].disp.precision).frac = rounded
    /\ rounded < Pow10(log[c][k].disp.precision) =>
          Segment(c, k) = FixedText(DoubleOf(c, k).num \div DoubleOf(c, k).den,
                                    rounded, log[c][k].disp.precision)

OddOrZero(n) == n = 0 \/ n % 2 = 1

EvenOrZero(n) == n = 0 \/ n % 2 = 0

\* C26 as amended: in the fixed converter with precision p >= 1, when the
\* residual of the scaled fraction (v - w) * 10^p against its integer part
\* frac is exactly 0.5, frac is rounded up only if it is odd or zero;
\* otherwise it is left unchanged (0.375 -> 0.38, 0.125 -> 0.12, 0.05 -> 0.1).
C26_HalfFraction ==
    \A k \in Directives(Collecting) :
        (/\ RoundsFraction(Collecting, k)
         /\ ExactHalf(DoubleOf(Collecting, k), log[Collecting][k].disp.precision)) =>
            HalfRoundedTo(Collecting, k,
                LET frac == IntegerPart(DoubleOf(Collecting, k),
                                        log[Collecting][k].disp.precision)
                IN  IF OddOrZero(frac) THEN frac + 1 ELSE frac)

\* C26 as stated: on an exact half frac is rounded up only if it is already
\* even or zero; otherwise it is left unchanged.
C26_HalfEvenOrZero ==
    \A k \in Directives(Collecting) :
        (/\ RoundsFraction(Collecting, k)
         /\ ExactHalf(DoubleOf(Collecting, k), log[Collecting][k].disp.precision)) =>
            HalfRoundedTo(Collecting, k,
                LET frac == IntegerPart(DoubleOf(Collecting, k),
                                        log[Collecting][k].disp.precision)
                IN  IF EvenOrZero(frac) THEN frac + 1 ELSE frac)

\* %.2f has rendered 0.375, whose scaled fraction 37.5 is exactly halfway
\* above the odd 37, as 0.38.
C26_Witness ==
    /\ Done(Collecting)
    /\ Len(log[Collecting]) = 1
    /\ RoundsFraction(Collecting, 1)
    /\ log[Collecting][1].disp.precision = 2
    /\ DoubleOf(Collecting, 1).num = 3
    /\ DoubleOf(Collecting, 1).den = 8
    /\ ExactHalf(DoubleOf(Collecting, 1), 2)
    /\ ctx[Collecting].put = Bytes(<<"0", ".", "3", "8">>)

\* The segment of the directive at log[c][k] ends with a decimal point
\* followed by exactly p digits.
FractionDigits(c, k, p) ==
    /\ Len(Segment(c, k)) > p + 1
    /\ Segment(c, k)[Len(Segment(c, k)) - p] = CH_DOT
    /\ \A i \in 1..Len(Segment(c, k)) :
          i # Len(Segment(c, k)) - p => Segment(c, k)[i] \in DigitChars

\* C29: in the fixed converter with a precision p of 1 to 9, frac after
\* rounding is below 10^p for every value, an exact half above
\* frac = 10^p - 1 included (the carry goes into whole), so that the digit
\* counter never goes below zero and exactly p digits follow the point.
C29_FractionBounded ==
    \A k \in Directives(Collecting) :
        RoundsFraction(Collecting, k) =>
            /\ FtoaRound(DoubleOf(Collecting, k).num, DoubleOf(Collecting, k).den,
                         log[Collecting][k].disp.precision).frac
                  < Pow10(log[Collecting][k].disp.precision)
            /\ FractionDigits(Collecting, k, log[Collecting][k].disp.precision)

\* What the converter does where the scaled fraction is exactly halfway
\* above 10^p - 1: frac becomes 10^p without a carry, its p + 1 digits take
\* the counter below zero, zeros are added until the buffer is full and the
\* directive renders the diagnostic.
FractionAsCoded ==
    \A k \in Directives(Collecting) :
        (/\ RoundsFraction(Collecting, k)
         /\ ExactHalf(DoubleOf(Collecting, k), log[Collecting][k].disp.precision)
         /\ IntegerPart(DoubleOf(Collecting, k), log[Collecting][k].disp.precision)
               = Pow10(log[Collecting][k].disp.precision) - 1) =>
            Segment(Collecting, k) = STR_exceeded_ftoa

(***************************************************************************)
(* The buffer of _ftoa.                                                    *)
(***************************************************************************)
\* The directive at log[c][k] runs _ftoa on the State as dispatched: f or F
\* with a finite value that is not refused.
RunsFtoa(c, k) ==
    /\ log[c][k].disp.specifier \in {CH_f, CH_F}
    /\ DoubleOf(c, k).cls = "fin"
    /\ ~ExceedsMaxFloat(DoubleOf(c, k))

\* buf and len of _ftoa on the State d and the value when it reaches _out_rev or ftoa_exceeded:
\* the zeros of a precision above 9, the fraction, the whole part, the
\* zero padding and the sign, each byte through the guarded write.
FtoaBufferOf(d, value) ==
    LET prec0    == IF "PRECISION" \notin d.flags
                    THEN PICO_PRINTF_DEFAULT_FLOAT_PRECISION ELSE d.precision
        p        == IF prec0 >= POW10_LEN THEN POW10_LEN - 1 ELSE prec0
        r        == FtoaRound(value.num, value.den, p)
        zeros    == BufPush([buf |-> << >>, over |-> FALSE], Rep(CH_ZERO, prec0 - p))
    IN  FtoaBuf(d, value.neg /\ value.num # 0,
                BufPush(FtoaFraction(zeros, p, DigitsRev(r.frac)), DigitsRev(r.whole)))

\* The first Len(s) bytes of seg are s.
StartsWith(seg, s) == Len(seg) >= Len(s) /\ SubSeq(seg, 1, Len(s)) = s

\* C28: _ftoa never writes outside its buffer: len stays within
\* PICO_PRINTF_FTOA_BUFFER_SIZE whatever the precision, the width and the
\* value; a write that finds the buffer full jumps to the diagnostic, which
\* is then all the converter emits (nothing of the buffer), and a run that
\* never finds it full emits no diagnostic.
C28_BufferBounded ==
    \A k \in FloatDirectivesOf(Collecting) :
        /\ RunsFtoa(Collecting, k) =>
              /\ Len(FtoaBufferOf(log[Collecting][k].disp, DoubleOf(Collecting, k)).buf)
                    <= PICO_PRINTF_FTOA_BUFFER_SIZE
              /\ IF FtoaBufferOf(log[Collecting][k].disp, DoubleOf(Collecting, k)).over
                 THEN Segment(Collecting, k) = STR_exceeded_ftoa
                 ELSE /\ ~BufferExceeded(Collecting, k)
                      /\ Len(Segment(Collecting, k)) >=
                            Len(FtoaBufferOf(log[Collecting][k].disp,
                                             DoubleOf(Collecting, k)).buf)
        /\ BufferExceeded(Collecting, k) =>
              StartsWith(Segment(Collecting, k), STR_exceeded_ftoa)

\* %+.30f with 1.5 has run: 21 zeros, nine digits, the point and one digit
\* fill the 32 bytes, the write of the sign finds the buffer full and the
\* call puts the diagnostic alone.
C28_Witness ==
    /\ Done(Collecting)
    /\ input.format = Bytes(<<"%", "+", ".", "3", "0", "f">>)
    /\ RunsFtoa(Collecting, 1)
    /\ DoubleOf(Collecting, 1).num = 3
    /\ FtoaBufferOf(log[Collecting][1].disp, DoubleOf(Collecting, 1)).over
    /\ Len(FtoaBufferOf(log[Collecting][1].disp, DoubleOf(Collecting, 1)).buf)
          = PICO_PRINTF_FTOA_BUFFER_SIZE
    /\ ctx[Collecting].put = STR_exceeded_ftoa

(***************************************************************************)
(* Formats that end inside a directive.                                    *)
(***************************************************************************)
\* What comes before the last directive of the format.
EndPrefixes == { << >>, Bytes(<<"a">>), Bytes(<<"%", "d">>), Bytes(<<"%", "%">>) }

\* The fields after the last '%': nothing, flags, a width, a precision, a
\* size, and all of them.
EndFields ==
    { << >>, Bytes(<<"-">>), Bytes(<<"0", "#">>), Bytes(<<"5">>), Bytes(<<"*">>),
      Bytes(<<".">>), Bytes(<<".", "3">>), Bytes(<<".", "*">>),
      Bytes(<<"l">>), Bytes(<<"l", "l">>), Bytes(<<"h">>), Bytes(<<"h", "h">>),
      Bytes(<<"z">>), Bytes(<<"-", "0", "5", ".", "2", "l">>) }

\* The end of the format: none (the directive is cut by the terminator), or
\* a specifier, with or without a literal after it.
EndTails == { << >>, Bytes(<<"d">>), Bytes(<<"d", "b">>) }

EndInputs ==
    { Item(px \o <<CH_PCT>> \o fd \o tl, <<ArgInt(4), ArgInt(5), ArgInt(6)>>) :
          px \in EndPrefixes, fd \in EndFields, tl \in EndTails }
    \cup { Item(px, <<ArgInt(4)>>) : px \in EndPrefixes }

NextEnd ==
    \/ Call(Collecting, EndInputs)
    \/ Literal(Collecting)
    \/ Directive(Collecting)
    \/ Return(Collecting)
    \/ PastEnd(Collecting)

SpecEnd == Init /\ [][NextEnd]_vars

\* C27: the driver never reads the format past its terminating NUL, a
\* format that ends inside a directive included (a lone trailing '%', or a
\* '%' followed only by flags, width, precision or size): the cursor never
\* goes beyond the terminator.
C27_WithinFormat ==
    \A c \in Calls :
        input.chosen =>
            /\ fpos[c] <= Len(input.format) + 1
            /\ pc[c] # "abort"

\* The directive whose specifier byte is the terminator: the diagnostic for
\* the byte 0 is rendered and the cursor is left one past the terminator.
EndAsCoded ==
    \A k \in Directives(Collecting) :
        log[Collecting][k].disp.specifier = 0 =>
            /\ log[Collecting][k].h = "NULL"
            /\ log[Collecting][k].next = Len(input.format) + 2

(***************************************************************************)
(* Two directives in a row: what the first handler leaves in the State and *)
(* what the second one is given.                                           *)
(***************************************************************************)
\* Directives whose handler changes the State it is given: conv_ptr sets
\* width, ZEROPAD and the specifier, _ftoa takes one off the width for the
\* sign, conv_str counts the precision down, _ntoa_intro clears ZEROPAD
\* under a precision; and directives with every field set.
LeadingDirectives ==
    { Item(Bytes(<<"%", "p">>), <<ArgPtr(48879)>>),
      Item(Bytes(<<"%", "+", "0", "8", ".", "1", "f">>), <<ArgDbl("fin", FALSE, 3, 2)>>),
      Item(Bytes(<<"%", "6", ".", "2", "s">>), <<ArgStr(Bytes(<<"h", "e", "l", "l", "o">>))>>),
      Item(Bytes(<<"%", "0", "5", ".", "1", "d">>), <<ArgInt(7)>>),
      Item(Bytes(<<"%", "-", "*", "l", "d">>), <<ArgInt(4), ArgInt(7)>>),
      Item(Bytes(<<"%", "#", " ", ".", "*", "h", "h", "x">>), <<ArgInt(3), ArgInt(255)>>),
      Item(Bytes(<<"%", "l", "l", "u">>), <<ArgInt(9)>>),
      Item(Bytes(<<"%", "%">>), << >>),
      Item(Bytes(<<"%", "-", "3", "c">>), <<ArgInt(65)>>) }

FollowingDirectives ==
    { Item(Bytes(<<"%", "d">>), <<ArgInt(42)>>),
      Item(Bytes(<<"%", "5", "d">>), <<ArgInt(42)>>),
      Item(Bytes(<<"%", "x">>), <<ArgInt(255)>>),
      Item(Bytes(<<"%", "s">>), <<ArgStr(Bytes(<<"h", "i">>))>>),
      Item(Bytes(<<"%", "f">>), <<ArgDbl("fin", TRUE, 3, 2)>>),
      Item(Bytes(<<"%", "*", "d">>), <<ArgInt(3), ArgInt(42)>>),
      Item(Bytes(<<"%", "p">>), <<ArgPtr(5)>>) }

LeakInputs ==
    { Item(a.format \o sep \o b.format, a.args \o b.args) :
          a \in LeadingDirectives, b \in FollowingDirectives,
          sep \in { << >>, <<CH_SPACE>> } }

NextLeak ==
    \/ Call(Collecting, LeakInputs)
    \/ Literal(Collecting)
    \/ Directive(Collecting)
    \/ Return(Collecting)

SpecLeak == Init /\ [][NextLeak]_vars

\* The text of the directive at log[c][k], from its '%' to its specifier,
\* and the arguments from its cursor on.
DirectiveText(c, k) == SubSeq(input.format, log[c][k].at, log[c][k].next - 1)

DirectiveArgs(c, k) == SubSeq(input.args, log[c][k].va0, Len(input.args))

\* The directive at log[c][k] is dispatched with the State, and renders the
\* bytes, of a call whose format is this directive alone.
AsIfAlone(c, k) ==
    /\ log[c][k].disp = ParseDirective(DirectiveText(c, k), 2, DirectiveArgs(c, k),
                                       1, build).st
    /\ log[c][k].va1 - log[c][k].va0
          = ParseDirective(DirectiveText(c, k), 2, DirectiveArgs(c, k), 1, build).va - 1
    /\ Segment(c, k) = Rendered(DirectiveText(c, k), DirectiveArgs(c, k), 1, 1)

\* C30: the State of a directive does not leak into the next one: at
\* dispatch flags, width, precision and size depend only on the text of the
\* current directive and on its `*` arguments, whatever the previous handler
\* did to the State (conv_ptr, _ftoa, conv_str, _ntoa_intro); only the
\* argument cursor and the count of the sink carry over.
C30_NoLeak ==
    \A k \in Directives(Collecting) :
        /\ AsIfAlone(Collecting, k)
        /\ k > 1 => log[Collecting][k].va0 = log[Collecting][k - 1].va2
        /\ log[Collecting][k].from <= ctx[Collecting].idx

\* %p%d has run: conv_ptr was given no width and set one of its own with
\* ZEROPAD, and the %d after it is dispatched with no flag and no width and
\* renders 42 alone.
C30_Witness ==
    /\ Done(Collecting)
    /\ input.format = Bytes(<<"%", "p", "%", "d">>)
    /\ log[Collecting][1].h = "conv_ptr"
    /\ Len(Segment(Collecting, 1)) = 2 * PtrBytes(build)
    /\ log[Collecting][2].disp =
          [flags |-> {}, width |-> 0, precision |-> 0, size |-> "DEFAULT",
           specifier |-> CH_d]
    /\ Segment(Collecting, 2) = Bytes(<<"4", "2">>)

====
